---------------------------- MODULE Spec2Model ----------------------------
(***************************************************************************)
(* Model of the Nipe engine (src/src/engine.rs), its callers in            *)
(* src/src/main.rs and the three firewall providers of src/src/platform.   *)
(*                                                                         *)
(* One CLI process owns one NipeEngine.  start() and stop() are async      *)
(* functions; every step below is one stage of them, taken in the order    *)
(* of the code.  The outcome of each external call (a file-system call, a  *)
(* spawned command, the connectivity check) is chosen by the environment.  *)
(* Supervised processes die only when the program kills them.              *)
(***************************************************************************)
EXTENDS Naturals, Integers, Sequences, FiniteSets, TLC

(***************************************************************************)
(* Bounds                                                                  *)
(***************************************************************************)
\* number of supervised processes that may be spawned in one behaviour
MaxProcs == 2

\* number of provider operations applied in a row to one host
MaxFwOps == 3

\* number of times the runtime configuration is generated on one host
MaxGenerations == 2

(***************************************************************************)
(* Program constants                                                       *)
(***************************************************************************)
\* engine.rs:294  let max_attempts = 60
max_attempts == 60

\* config.rs:44-46  the default ports of SOCKS, control and DNS
DefaultSocksPort == 9050
DefaultControlPort == 9051
DefaultDnsPort == 9061

Platforms == {"linux", "macos", "windows"}

\* engine.rs:29  candidate accounts, in priority order
users == <<"debian-tor", "tor", "nobody">>

\* engine.rs:66-72  install paths probed before the bare command name
common_paths == <<"/usr/bin/tor", "/usr/sbin/tor", "/usr/local/bin/tor",
                  "/opt/homebrew/bin/tor", "/opt/local/bin/tor">>

(***************************************************************************)
(* Text.  A string that the program takes apart or matches is a sequence   *)
(* of characters.                                                          *)
(***************************************************************************)
Chars ==
  [x \in {"/usr/bin/tor", "/usr/sbin/tor", "/usr/local/bin/tor",
          "/opt/homebrew/bin/tor", "/opt/local/bin/tor", "tor"} |->
     CASE x = "/usr/bin/tor" -> <<"/","u","s","r","/","b","i","n","/","t","o","r">>
       [] x = "/usr/sbin/tor" -> <<"/","u","s","r","/","s","b","i","n","/","t","o","r">>
       [] x = "/usr/local/bin/tor" ->
            <<"/","u","s","r","/","l","o","c","a","l","/","b","i","n","/","t","o","r">>
       [] x = "/opt/homebrew/bin/tor" ->
            <<"/","o","p","t","/","h","o","m","e","b","r","e","w","/","b","i","n","/","t","o","r">>
       [] x = "/opt/local/bin/tor" ->
            <<"/","o","p","t","/","l","o","c","a","l","/","b","i","n","/","t","o","r">>
       [] x = "tor" -> <<"t","o","r">>]

\* config.rs:47  the default data_directory, "/tmp/nipe/tor-data"
DefaultDataDirectory ==
  <<"/","t","m","p","/","n","i","p","e","/","t","o","r","-","d","a","t","a">>

\* a data_directory set in config.toml: "/tmp/nipe_torrc/tor-data"
OtherDataDirectory ==
  <<"/","t","m","p","/","n","i","p","e","_","t","o","r","r","c","/",
    "t","o","r","-","d","a","t","a">>

\* the configurations tried: the default one (config.rs:40-65), the default
\* with the kill switch switched off, and one with another data directory
Configs ==
  { [enable_kill_switch |-> TRUE,  data_directory |-> DefaultDataDirectory],
    [enable_kill_switch |-> FALSE, data_directory |-> DefaultDataDirectory],
    [enable_kill_switch |-> TRUE,  data_directory |-> OtherDataDirectory] }

\* engine.rs:263  the pattern handed to pkill -f: "tor -f /tmp/nipe_torrc"
PkillPattern ==
  <<"t","o","r"," ","-","f"," ","/","t","m","p","/","n","i","p","e","_","t","o","r","r","c">>

\* index of the last "/" of a path, 0 when it has none
RECURSIVE LastSlash(_, _)
LastSlash(p, i) ==
  IF i = 0 THEN 0 ELSE IF p[i] = "/" THEN i ELSE LastSlash(p, i - 1)

\* Path::parent: the path without its last component
Parent(p) == SubSeq(p, 1, LastSlash(p, Len(p)) - 1)

\* Path::join
Join(p, name) == p \o <<"/">> \o name

\* engine.rs:414-420  where generate_torrc writes the runtime configuration
TorrcPath(cfg) == Join(Parent(cfg.data_directory), <<"t","o","r","r","c">>)

\* engine.rs:207-209  the command line of the spawned process: <tor> -f <torrc>
CommandLine(tor_cmd, cfg) == Chars[tor_cmd] \o <<" ","-","f"," ">> \o TorrcPath(cfg)

\* pkill -f: the pattern matches anywhere in the full command line
\* (the pattern of the program holds no regular-expression operator)
Contains(text, pat) ==
  \E i \in 1..(Len(text) - Len(pat) + 1) : SubSeq(text, i, i + Len(pat) - 1) = pat

PkillMatches(cmdline) == Contains(cmdline, PkillPattern)

(***************************************************************************)
(* Errors (error.rs).  An error value is its kind and the call that        *)
(* raised it.                                                              *)
(***************************************************************************)
Ok == [kind |-> "Ok", site |-> "-"]
Err(k, s) == [kind |-> k, site |-> s]
NoResult == [op |-> "none", res |-> Ok]

\* outcome of one external command: exit status 0 and its effect applied,
\* a non-zero exit status and no effect, or the command could not be run
CmdOutcome == {"ok", "nonzero", "spawn_err"}


(***************************************************************************)
(* Firewall providers (platform/linux.rs, macos.rs, windows.rs).  The host *)
(* firewall state is ks (the kill-switch rules are installed) and proxy    *)
(* (the host-level proxy setting is on).  Each operation takes the         *)
(* outcomes o1, o2 of the external commands it runs, in order, and yields  *)
(* its result and the state it leaves.                                     *)
(***************************************************************************)
Fw(r, k, p) == [res |-> r, ks |-> k, proxy |-> p]

\* linux.rs:11-15, windows.rs:29-35: never fails.  macos.rs:12-17 and
\* 142-160: fails when the default-route interface cannot be detected.
FirewallNew(pf, iface_found) ==
  IF pf = "macos" /\ ~iface_found
  THEN Err("InterfaceNotFound", "Firewall::new")
  ELSE Ok

\* linux.rs:17-36: output()? fails only when iptables cannot be run; the
\* exit status of the commands is not looked at.  o1: the iptables commands.
LinuxEnableKillSwitch(o1, ks, proxy) ==
  CASE o1 = "ok" -> Fw(Ok, TRUE, proxy)
    [] o1 = "nonzero" -> Fw(Ok, ks, proxy)
    [] o1 = "spawn_err" -> Fw(Err("IoError", "enable_kill_switch"), ks, proxy)

\* linux.rs:38-56.  o1: the iptables -F / -X commands.
LinuxDisableKillSwitch(o1, ks, proxy) ==
  CASE o1 = "ok" -> Fw(Ok, FALSE, proxy)
    [] o1 = "nonzero" -> Fw(Ok, ks, proxy)
    [] o1 = "spawn_err" -> Fw(Err("IoError", "disable_kill_switch"), ks, proxy)

\* linux.rs:58-63: no host-level setting exists; nothing is changed
LinuxEnableSocksProxy(ks, proxy) == Fw(Ok, ks, proxy)

\* linux.rs:65-68
LinuxDisableSocksProxy(ks, proxy) == Fw(Ok, ks, proxy)

\* macos.rs:19-64.  written: the rules file could be written; o2: pfctl -ef.
\* A non-zero exit status of pfctl is logged and the call returns Ok.
MacEnableKillSwitch(written, o2, ks, proxy) ==
  IF ~written THEN Fw(Err("IoError", "enable_kill_switch"), ks, proxy)
  ELSE CASE o2 = "ok" -> Fw(Ok, TRUE, proxy)
         [] o2 = "nonzero" -> Fw(Ok, ks, proxy)
         [] o2 = "spawn_err" -> Fw(Err("FirewallError", "enable_kill_switch"), ks, proxy)

\* macos.rs:66-83.  o1: pfctl -d.
MacDisableKillSwitch(o1, ks, proxy) ==
  CASE o1 = "ok" -> Fw(Ok, FALSE, proxy)
    [] o1 = "nonzero" -> Fw(Ok, ks, proxy)
    [] o1 = "spawn_err" -> Fw(Err("FirewallError", "disable_kill_switch"), ks, proxy)

\* macos.rs:85-121.  o1: networksetup -setsocksfirewallproxy;
\* o2: networksetup -setsocksfirewallproxystate on.
MacEnableSocksProxy(o1, o2, ks, proxy) ==
  IF o1 # "ok" THEN Fw(Err("FirewallError", "enable_socks_proxy"), ks, proxy)
  ELSE CASE o2 = "ok" -> Fw(Ok, ks, TRUE)
         [] o2 = "nonzero" -> Fw(Err("FirewallError", "enable_socks_proxy"), ks, proxy)
         [] o2 = "spawn_err" -> Fw(Err("IoError", "enable_socks_proxy"), ks, proxy)

\* macos.rs:123-139.  o1: networksetup ... off, its result is dropped;
\* then disable_kill_switch()? with o2: pfctl -d.
MacDisableSocksProxy(o1, o2, ks, proxy) ==
  MacDisableKillSwitch(o2, ks, IF o1 = "ok" THEN FALSE ELSE proxy)

\* windows.rs:12-25  run_netsh: any failure of the command is an error
RunNetsh(o, site) == IF o = "ok" THEN Ok ELSE Err("CommandError", site)

\* windows.rs:37-59.  o1: delete rule (result dropped); o2: add rule.
WinEnableKillSwitch(o1, o2, ks, proxy) ==
  Fw(RunNetsh(o2, "enable_kill_switch"),
     IF o2 = "ok" THEN TRUE ELSE IF o1 = "ok" THEN FALSE ELSE ks,
     proxy)

\* windows.rs:61-70.  o1: delete rule.
WinDisableKillSwitch(o1, ks, proxy) ==
  Fw(RunNetsh(o1, "disable_kill_switch"), IF o1 = "ok" THEN FALSE ELSE ks, proxy)

\* windows.rs:72-76.  o1: netsh winhttp set proxy.
WinEnableSocksProxy(o1, ks, proxy) ==
  Fw(RunNetsh(o1, "enable_socks_proxy"), ks, IF o1 = "ok" THEN TRUE ELSE proxy)

\* windows.rs:78-81.  o1: netsh winhttp reset proxy.
WinDisableSocksProxy(o1, ks, proxy) ==
  Fw(RunNetsh(o1, "disable_socks_proxy"), ks, IF o1 = "ok" THEN FALSE ELSE proxy)

\* platform/mod.rs:12-31: the provider is fixed by the target platform
EnableKillSwitch(pf, written, o1, o2, ks, proxy) ==
  CASE pf = "linux" -> LinuxEnableKillSwitch(o1, ks, proxy)
    [] pf = "macos" -> MacEnableKillSwitch(written, o2, ks, proxy)
    [] pf = "windows" -> WinEnableKillSwitch(o1, o2, ks, proxy)

DisableKillSwitch(pf, o1, ks, proxy) ==
  CASE pf = "linux" -> LinuxDisableKillSwitch(o1, ks, proxy)
    [] pf = "macos" -> MacDisableKillSwitch(o1, ks, proxy)
    [] pf = "windows" -> WinDisableKillSwitch(o1, ks, proxy)

EnableSocksProxy(pf, o1, o2, ks, proxy) ==
  CASE pf = "linux" -> LinuxEnableSocksProxy(ks, proxy)
    [] pf = "macos" -> MacEnableSocksProxy(o1, o2, ks, proxy)
    [] pf = "windows" -> WinEnableSocksProxy(o1, ks, proxy)

DisableSocksProxy(pf, o1, o2, ks, proxy) ==
  CASE pf = "linux" -> LinuxDisableSocksProxy(ks, proxy)
    [] pf = "macos" -> MacDisableSocksProxy(o1, o2, ks, proxy)
    [] pf = "windows" -> WinDisableSocksProxy(o1, ks, proxy)

\* the outcomes that matter to a platform: the commands an operation does
\* not run there have the single outcome "ok"
Outcomes(pf, pfs) == IF pf \in pfs THEN CmdOutcome ELSE {"ok"}
Flags(pf, pfs) == IF pf \in pfs THEN BOOLEAN ELSE {TRUE}

\* whether the platform has a host-level proxy setting at all (linux.rs:58-68)
HasProxySetting(pf) == pf # "linux"

(***************************************************************************)
(* Helpers of the engine (engine.rs)                                       *)
(***************************************************************************)
\* outcome of probing one candidate account with `id`: both ids resolve,
\* the account is unknown (or an id does not parse), or `id` cannot be run
IdOutcome == {"found", "unknown", "cmd_fail"}

\* engine.rs:27-63  find_tor_user: first candidate that resolves; a failure
\* to run `id` ends the search (.ok()?)
RECURSIVE FindTorUserFrom(_, _)
FindTorUserFrom(i, probe) ==
  IF i > Len(users) THEN "none"
  ELSE CASE probe[i] = "cmd_fail" -> "none"
         [] probe[i] = "found" -> users[i]
         [] probe[i] = "unknown" -> FindTorUserFrom(i + 1, probe)

FindTorUser(probe) == FindTorUserFrom(1, probe)

\* the hosts tried: no candidate account exists; `id` cannot be run; the
\* first candidate exists; only the last one does
Probes ==
  { <<"unknown", "unknown", "unknown">>,
    <<"unknown", "cmd_fail", "found">>,
    <<"found", "found", "found">>,
    <<"unknown", "unknown", "found">> }

\* engine.rs:65-82  find_tor_path: first install path that exists, else "tor"
RECURSIVE FindTorPathFrom(_, _)
FindTorPathFrom(i, existing) ==
  IF i > Len(common_paths) THEN "tor"
  ELSE IF common_paths[i] \in existing THEN common_paths[i]
  ELSE FindTorPathFrom(i + 1, existing)

FindTorPath(existing) == FindTorPathFrom(1, existing)

\* where the proxy binary is on the host: the install paths that exist and
\* whether the bare name resolves on the search path
HostTors ==
  { [existing |-> {}, on_path |-> FALSE],
    [existing |-> {"/usr/sbin/tor", "/usr/local/bin/tor"}, on_path |-> TRUE] }

\* engine.rs:219-221  spawn succeeds when the resolved command can be run
SpawnSucceeds(host, exec_ok) ==
  /\ exec_ok
  /\ FindTorPath(host.existing) = "tor" => host.on_path

\* mutant: the spawn error is propagated with `?` instead of being mapped
SpawnError_Unmapped == Err("IoError", "spawn")

\* engine.rs:219-221  a spawn failure is mapped to TorStartFailed
SpawnError == Err("TorStartFailed", "spawn")

\* engine.rs:120-201  the fallible file-system stages of start_internal before
\* the spawn, in order: the error kind each raises and when it runs
\* ("user": only with a resolved account; "no_log_dir": only when the log
\* directory does not exist)
Stages ==
  << [name |-> "create_parent_dir",  kind |-> "IoError",        when |-> "always"],
     [name |-> "create_data_dir",    kind |-> "IoError",        when |-> "always"],
     [name |-> "chmod_data_dir",     kind |-> "IoError",        when |-> "always"],
     [name |-> "chown_data_dir",     kind |-> "Other",          when |-> "user"],
     [name |-> "generate_torrc",     kind |-> "IoError",        when |-> "always"],
     [name |-> "chown_torrc",        kind |-> "Other",          when |-> "user"],
     [name |-> "create_log_dir",     kind |-> "TorStartFailed", when |-> "no_log_dir"],
     [name |-> "chmod_log_dir",      kind |-> "IoError",        when |-> "always"],
     [name |-> "chown_log_dir",      kind |-> "Other",          when |-> "always"],
     [name |-> "create_log_file",    kind |-> "TorStartFailed", when |-> "always"],
     [name |-> "chmod_log_file",     kind |-> "IoError",        when |-> "always"],
     [name |-> "chown_log_file",     kind |-> "Other",          when |-> "user"],
     [name |-> "clone_log_handle",   kind |-> "TorStartFailed", when |-> "always"] >>

StageRuns(i, user, log_dir_exists) ==
  CASE Stages[i].when = "always" -> TRUE
    [] Stages[i].when = "user" -> user # "none"
    [] Stages[i].when = "no_log_dir" -> ~log_dir_exists

StageError(i) == Err(Stages[i].kind, Stages[i].name)

\* engine.rs:120-201  the stages run in order and the first one that fails
\* ends start_internal with its error (`?`); failing is the set of stages
\* that would fail on this host
RECURSIVE RunStagesFrom(_, _, _, _)
RunStagesFrom(i, failing, user, log_dir_exists) ==
  IF i > Len(Stages) THEN Ok
  ELSE IF StageRuns(i, user, log_dir_exists) /\ i \in failing THEN StageError(i)
  ELSE RunStagesFrom(i + 1, failing, user, log_dir_exists)

\* the place of a stage in the order of the code
StageIndex(name) == CHOOSE i \in 1..Len(Stages) : Stages[i].name = name

\* mutant: the result of generate_torrc is dropped instead of returned
RunStages_ConfigUnchecked(failing, user, log_dir_exists) ==
  RunStagesFrom(1, failing \ {StageIndex("generate_torrc")}, user, log_dir_exists)

RunStages(failing, user, log_dir_exists) ==
  RunStagesFrom(1, failing, user, log_dir_exists)

\* engine.rs:113-242  the steps of start_internal, in the order of the code
StartOrder == <<"data_directory", "generate_torrc", "spawn", "bootstrap", "firewall">>

\* the stages that run and do not fail up to the first one that does
StagesPassed(failing, user, log_dir_exists) ==
  {i \in 1..Len(Stages) :
     \A j \in 1..i : ~(StageRuns(j, user, log_dir_exists) /\ j \in failing)}

\* engine.rs:120-152  the steps the file-system stages complete: the data
\* directory is set up with the stages up to its chown (120-141), the
\* configuration is written with generate_torrc (145)
StagesDone(failing, user, log_dir_exists) ==
  LET passed == StagesPassed(failing, user, log_dir_exists) IN
    (IF StageIndex("chown_data_dir") \in passed THEN <<"data_directory">> ELSE <<>>)
    \o (IF StageIndex("generate_torrc") \in passed THEN <<"generate_torrc">> ELSE <<>>)

\* engine.rs:291-312  wait_for_bootstrap: up to max_attempts checks, a one
\* second sleep after each failed check.  first_ok is the number of the first
\* check that succeeds (0: none does).
RECURSIVE BootstrapLoop(_, _, _, _)
BootstrapLoop(attempt, first_ok, checks, waits) ==
  IF attempt >= max_attempts
  THEN [res |-> Err("BootstrapTimeout", "wait_for_bootstrap"),
        checks |-> checks, waits |-> waits]
  ELSE IF attempt + 1 = first_ok
  THEN [res |-> Ok, checks |-> checks + 1, waits |-> waits]
  ELSE BootstrapLoop(attempt + 1, first_ok, checks + 1, waits + 1)

WaitForBootstrap(first_ok) == BootstrapLoop(0, first_ok, 0, 0)

\* the connectivity outcomes tried: never, at once, on the second and on the
\* last attempt
FirstOks == {0, 1, 2, max_attempts}

\* mutant: start() propagates the rollback's error (self.stop().await?)
StartResult_RollbackWins(err, rollback) == IF rollback # Ok THEN rollback ELSE err

\* engine.rs:103-110  what start() returns when start_internal failed with
\* err and the rollback stop() returned rollback
StartResult(err, rollback) == err

(***************************************************************************)
(* The rule sets of the firewall providers.  A rule matches a packet on    *)
(* the fields it names ("any" and port 0 match everything) and carries an  *)
(* action; name is the rule name (Windows) or the chain a JUMP goes to.    *)
(***************************************************************************)
Rule(action, proto, dport, owner, st, fam, iface, name) ==
  [action |-> action, proto |-> proto, dport |-> dport, owner |-> owner,
   st |-> st, fam |-> fam, iface |-> iface, name |-> name]

\* the outbound packets looked at: protocol, destination port (53: DNS),
\* owning account, connection state, address family and outgoing interface
\* ("ext" is the default-route interface)
Packets ==
  [proto : {"tcp", "udp", "icmp", "sctp"}, dport : {53, 443},
   owner : {"root", "debian-tor", "user"}, st : {"NEW", "ESTABLISHED"},
   fam : {"inet", "inet6"}, iface : {"ext", "other"}]

Matches(r, pkt) ==
  /\ r.proto \in {"any", pkt.proto}
  /\ r.dport \in {0, pkt.dport}
  /\ r.owner \in {"any", pkt.owner}
  /\ r.st \in {"any", pkt.st}
  /\ r.fam \in {"any", pkt.fam}
  /\ r.iface \in {"any", pkt.iface}

\* linux.rs:13  the account the Linux rules exempt
LinuxTorUser == "debian-tor"

\* linux.rs:98-137  -p <proto> [--dport <dport>] -j REDIRECT --to-ports <to>
Redirect(proto, dport, to) ==
  [action |-> "REDIRECT", proto |-> proto, dport |-> dport, owner |-> "any",
   st |-> "any", fam |-> "inet", iface |-> "any", name |-> "-", to |-> to]

\* linux.rs:72-138  the rules appended to OUTPUT of the nat table, in order
\* (iptables manages the IPv4 tables only)
NatRules ==
  << Rule("RETURN",   "any", 0,  "any",        "ESTABLISHED", "inet", "any", "-"),
     Rule("RETURN",   "any", 0,  LinuxTorUser, "any",         "inet", "any", "-"),
     Redirect("udp", 53, 9061),
     Redirect("tcp", 53, 9061),
     Redirect("tcp", 0, 9051) >>

\* linux.rs:148-175  the rules appended to OUTPUT of the filter table, in order
FilterRules ==
  << Rule("ACCEPT", "any",  0, "any",        "ESTABLISHED", "inet", "any", "-"),
     Rule("ACCEPT", "any",  0, LinuxTorUser, "any",         "inet", "any", "-"),
     Rule("REJECT", "udp",  0, "any",        "any",         "inet", "any", "-"),
     Rule("REJECT", "icmp", 0, "any",        "any",         "inet", "any", "-") >>

\* macos.rs:26  tor_user = "root"
MacTorUser == "root"

\* macos.rs:22-45  the rules written to /tmp/nipe_pf.conf, in order; every
\* one is quick; ext_if is the detected interface
PfRules ==
  << Rule("pass",  "udp", 53, "any",      "any", "any",   "ext", "-"),
     Rule("pass",  "tcp", 0,  MacTorUser, "any", "any",   "ext", "-"),
     Rule("block", "any", 0,  "any",      "any", "inet6", "any", "-"),
     Rule("block", "any", 0,  "any",      "any", "any",   "ext", "-") >>

\* windows.rs:48-58  name=Nipe Kill Switch dir=out action=block profile=any
WinRule == Rule("block", "any", 0, "any", "any", "any", "any", "Nipe Kill Switch")

\* the host firewall in detail.  Linux: the OUTPUT chains of the nat and
\* filter tables, the user chains (table, name; all empty) and the policy of
\* OUTPUT, which the program never sets.  macOS: whether PF is enabled and
\* the loaded rules.  Windows: the advfirewall rules.  proxy: the host-level
\* proxy setting (macOS network service, Windows WinHTTP) is on.
Host(nat, filter, chains, pf_enabled, pf_rules, adv, proxy_on) ==
  [nat |-> nat, filter |-> filter, chains |-> chains, policy |-> "ACCEPT",
   pf_enabled |-> pf_enabled, pf_rules |-> pf_rules, adv |-> adv,
   proxy |-> proxy_on, rules_file |-> FALSE]

CleanHost == Host(<<>>, <<>>, {}, FALSE, <<>>, <<>>, FALSE)

\* rules an administrator or another program had installed before
DockerJump == Rule("JUMP", "any", 0, "any", "any", "inet", "any", "DOCKER")
HttpsReject == Rule("REJECT", "tcp", 443, "user", "any", "inet", "any", "-")
PfHttpsBlock == Rule("block", "tcp", 443, "user", "any", "any", "ext", "-")
WinOther == Rule("block", "tcp", 443, "any", "any", "any", "any", "Other")

\* the hosts tried, per platform: a clean one and ones with rules and user
\* chains of their own
Hosts(pf) ==
  CASE pf = "linux" ->
         { CleanHost,
           [CleanHost EXCEPT !.nat = <<DockerJump>>,
                             !.chains = {<<"nat", "DOCKER">>}],
           [CleanHost EXCEPT !.filter = <<HttpsReject>>,
                             !.chains = {<<"filter", "SPARE">>}] }
    [] pf = "macos" ->
         { CleanHost,
           [CleanHost EXCEPT !.pf_enabled = TRUE, !.pf_rules = <<PfHttpsBlock>>],
           [CleanHost EXCEPT !.proxy = TRUE] }
    [] pf = "windows" ->
         { CleanHost,
           [CleanHost EXCEPT !.adv = <<WinOther>>],
           [CleanHost EXCEPT !.proxy = TRUE] }

\* first rule of an iptables chain that matches and decides (a JUMP goes to
\* an empty user chain and comes back)
RECURSIVE FirstMatch(_, _, _)
FirstMatch(rules, pkt, i) ==
  IF i > Len(rules) THEN "none"
  ELSE IF Matches(rules[i], pkt) /\ rules[i].action # "JUMP" THEN rules[i].action
  ELSE FirstMatch(rules, pkt, i + 1)

\* the place of the first rule of a chain that matches and decides, or 0
RECURSIVE FirstMatchAt(_, _, _)
FirstMatchAt(rules, pkt, i) ==
  IF i > Len(rules) THEN 0
  ELSE IF Matches(rules[i], pkt) /\ rules[i].action # "JUMP" THEN i
  ELSE FirstMatchAt(rules, pkt, i + 1)

\* the local port nat OUTPUT rewrites the destination of a packet to, or 0
\* when no REDIRECT rule decides (only the first packet of a connection
\* goes through the nat table)
RedirectTarget(h, pkt) ==
  LET at == IF pkt.st = "NEW" THEN FirstMatchAt(h.nat, pkt, 1) ELSE 0 IN
    IF at # 0 /\ h.nat[at].action = "REDIRECT" THEN h.nat[at].to ELSE 0

\* linux: nat OUTPUT sees the first packet of a connection, then filter
\* OUTPUT decides on the packet as nat left it; without a deciding rule the
\* policy of the chain does
LinuxVerdict(h, pkt) ==
  LET nat == IF pkt.st = "NEW" THEN FirstMatch(h.nat, pkt, 1) ELSE "none"
      seen == IF nat = "REDIRECT"
              THEN [pkt EXCEPT !.dport = RedirectTarget(h, pkt)]
              ELSE pkt
      flt == FirstMatch(h.filter, seen, 1)
      f   == IF flt = "none" THEN h.policy ELSE flt
  IN  IF f \in {"REJECT", "DROP"} THEN "blocked"
      ELSE IF nat = "REDIRECT" THEN "redirected"
      ELSE "direct"

\* PF: every rule here is quick, so the first matching rule decides; a
\* packet no rule matches passes
RECURSIVE PfEval(_, _, _)
PfEval(rules, pkt, i) ==
  IF i > Len(rules) THEN "pass"
  ELSE IF Matches(rules[i], pkt) THEN rules[i].action
  ELSE PfEval(rules, pkt, i + 1)

MacVerdict(h, pkt) ==
  IF ~h.pf_enabled THEN "direct"
  ELSE IF PfEval(h.pf_rules, pkt, 1) = "pass" THEN "direct"
  ELSE "blocked"

\* Windows: a matching block rule wins; outbound traffic is allowed otherwise
WinVerdict(h, pkt) ==
  IF \E i \in 1..Len(h.adv) : h.adv[i].action = "block" /\ Matches(h.adv[i], pkt)
  THEN "blocked"
  ELSE "direct"

\* what happens to an outbound packet on the host
Verdict(pf, h, pkt) ==
  CASE pf = "linux" -> LinuxVerdict(h, pkt)
    [] pf = "macos" -> MacVerdict(h, pkt)
    [] pf = "windows" -> WinVerdict(h, pkt)

\* the account whose packets the installed rules let out
ExemptAccount(pf) ==
  CASE pf = "linux" -> LinuxTorUser
    [] pf = "macos" -> MacTorUser
    [] pf = "windows" -> "none"

(***************************************************************************)
(* The provider operations on the detailed host.  outs holds the outcome   *)
(* of each external command the operation runs, in order.                  *)
(***************************************************************************)
HostResult(r, h) == [res |-> r, host |-> h]

IptCmd(t, op, rule) == [t |-> t, op |-> op, rule |-> rule]

NoRule == Rule("-", "any", 0, "any", "any", "any", "any", "-")

\* the chains of table t that some OUTPUT rule of t jumps to
Referenced(h, t) ==
  LET rules == IF t = "nat" THEN h.nat ELSE h.filter IN
    {<<t, rules[i].name>> : i \in {j \in 1..Len(rules) : rules[j].action = "JUMP"}}

\* one iptables command that ran and exited 0: -F OUTPUT empties the chain,
\* -A OUTPUT appends the rule, -X deletes the user chains of the table that
\* nothing refers to
ApplyIpt(c, h) ==
  CASE c.op = "F" /\ c.t = "nat"    -> [h EXCEPT !.nat = <<>>]
    [] c.op = "F" /\ c.t = "filter" -> [h EXCEPT !.filter = <<>>]
    [] c.op = "A" /\ c.t = "nat"    -> [h EXCEPT !.nat = Append(@, c.rule)]
    [] c.op = "A" /\ c.t = "filter" -> [h EXCEPT !.filter = Append(@, c.rule)]
    [] c.op = "X" ->
         [h EXCEPT !.chains = {ch \in @ : ch[1] # c.t \/ ch \in Referenced(h, c.t)}]

\* Command::new("iptables").args(..).output()?  for each command in order:
\* only a command that cannot be run ends the sequence with an error; the
\* exit status is not looked at
RECURSIVE RunIptables(_, _, _, _, _)
RunIptables(cmds, outs, i, h, site) ==
  IF i > Len(cmds) THEN HostResult(Ok, h)
  ELSE CASE outs[i] = "spawn_err" -> HostResult(Err("IoError", site), h)
         [] outs[i] = "nonzero" -> RunIptables(cmds, outs, i + 1, h, site)
         [] outs[i] = "ok" -> RunIptables(cmds, outs, i + 1, ApplyIpt(cmds[i], h), site)

\* linux.rs:17-36, 72-182  the commands of enable_kill_switch, in order
LinuxEnableCmds ==
  << IptCmd("nat", "F", NoRule), IptCmd("filter", "F", NoRule) >>
  \o [i \in 1..Len(NatRules) |-> IptCmd("nat", "A", NatRules[i])]
  \o [i \in 1..Len(FilterRules) |-> IptCmd("filter", "A", FilterRules[i])]

\* linux.rs:38-56  the commands of disable_kill_switch, in order
LinuxDisableCmds ==
  << IptCmd("nat", "F", NoRule), IptCmd("filter", "F", NoRule),
     IptCmd("nat", "X", NoRule), IptCmd("filter", "X", NoRule) >>

\* linux.rs:17-36
LinuxEnableHost(outs, h) ==
  RunIptables(LinuxEnableCmds, outs, 1, h, "enable_kill_switch")

\* linux.rs:38-56
LinuxDisableHost(outs, h) ==
  RunIptables(LinuxDisableCmds, outs, 1, h, "disable_kill_switch")

\* macos.rs:19-64  outs[1]: writing the rules file; outs[2]: pfctl -ef, which
\* loads the rules of the file in place of the loaded ones and enables PF
MacEnableHost(outs, h) ==
  IF outs[1] # "ok" THEN HostResult(Err("IoError", "enable_kill_switch"), h)
  ELSE LET h1 == [h EXCEPT !.rules_file = TRUE] IN
       CASE outs[2] = "ok" ->
              HostResult(Ok, [h1 EXCEPT !.pf_enabled = TRUE, !.pf_rules = PfRules])
         [] outs[2] = "nonzero" -> HostResult(Ok, h1)
         [] outs[2] = "spawn_err" ->
              HostResult(Err("FirewallError", "enable_kill_switch"), h1)

\* macos.rs:66-83  outs[1]: pfctl -d, which disables PF and leaves the
\* loaded rules; once pfctl has run, whatever its exit status, the rules
\* file is removed
MacDisableHost(outs, h) ==
  CASE outs[1] = "ok" ->
         HostResult(Ok, [h EXCEPT !.pf_enabled = FALSE, !.rules_file = FALSE])
    [] outs[1] = "nonzero" -> HostResult(Ok, [h EXCEPT !.rules_file = FALSE])
    [] outs[1] = "spawn_err" ->
         HostResult(Err("FirewallError", "disable_kill_switch"), h)

\* macos.rs:85-121  outs[1]: -setsocksfirewallproxy; outs[2]: ...state on
MacEnableSocksHost(outs, h) ==
  IF outs[1] # "ok" THEN HostResult(Err("FirewallError", "enable_socks_proxy"), h)
  ELSE CASE outs[2] = "ok" -> HostResult(Ok, [h EXCEPT !.proxy = TRUE])
         [] outs[2] = "nonzero" ->
              HostResult(Err("FirewallError", "enable_socks_proxy"), h)
         [] outs[2] = "spawn_err" ->
              HostResult(Err("IoError", "enable_socks_proxy"), h)

\* macos.rs:123-139  outs[1]: ...state off (result dropped); then
\* disable_kill_switch()? with outs[2]
MacDisableSocksHost(outs, h) ==
  MacDisableHost(<<outs[2]>>, IF outs[1] = "ok" THEN [h EXCEPT !.proxy = FALSE] ELSE h)

\* netsh advfirewall firewall delete rule name=Nipe Kill Switch
WinDeleteRule(adv) == SelectSeq(adv, LAMBDA r : r.name # WinRule.name)

\* windows.rs:37-59  outs[1]: delete rule (result dropped); outs[2]: add rule
WinEnableHost(outs, h) ==
  LET h1 == IF outs[1] = "ok" THEN [h EXCEPT !.adv = WinDeleteRule(@)] ELSE h
  IN  HostResult(RunNetsh(outs[2], "enable_kill_switch"),
                 IF outs[2] = "ok" THEN [h1 EXCEPT !.adv = Append(@, WinRule)] ELSE h1)

\* windows.rs:61-70  outs[1]: delete rule
WinDisableHost(outs, h) ==
  HostResult(RunNetsh(outs[1], "disable_kill_switch"),
             IF outs[1] = "ok" THEN [h EXCEPT !.adv = WinDeleteRule(@)] ELSE h)

\* windows.rs:72-76  outs[1]: netsh winhttp set proxy
WinEnableSocksHost(outs, h) ==
  HostResult(RunNetsh(outs[1], "enable_socks_proxy"),
             IF outs[1] = "ok" THEN [h EXCEPT !.proxy = TRUE] ELSE h)

\* windows.rs:78-81  outs[1]: netsh winhttp reset proxy
WinDisableSocksHost(outs, h) ==
  HostResult(RunNetsh(outs[1], "disable_socks_proxy"),
             IF outs[1] = "ok" THEN [h EXCEPT !.proxy = FALSE] ELSE h)

\* platform/mod.rs:23-31  the four operations of the provider of a platform
ProviderOp(pf, op, outs, h) ==
  CASE pf = "linux" /\ op = "enable_kill_switch" -> LinuxEnableHost(outs, h)
    [] pf = "linux" /\ op = "disable_kill_switch" -> LinuxDisableHost(outs, h)
    [] pf = "linux" /\ op = "enable_socks_proxy" -> HostResult(Ok, h)
    [] pf = "linux" /\ op = "disable_socks_proxy" -> HostResult(Ok, h)
    [] pf = "macos" /\ op = "enable_kill_switch" -> MacEnableHost(outs, h)
    [] pf = "macos" /\ op = "disable_kill_switch" -> MacDisableHost(outs, h)
    [] pf = "macos" /\ op = "enable_socks_proxy" -> MacEnableSocksHost(outs, h)
    [] pf = "macos" /\ op = "disable_socks_proxy" -> MacDisableSocksHost(outs, h)
    [] pf = "windows" /\ op = "enable_kill_switch" -> WinEnableHost(outs, h)
    [] pf = "windows" /\ op = "disable_kill_switch" -> WinDisableHost(outs, h)
    [] pf = "windows" /\ op = "enable_socks_proxy" -> WinEnableSocksHost(outs, h)
    [] pf = "windows" /\ op = "disable_socks_proxy" -> WinDisableSocksHost(outs, h)

\* how many external commands (and file writes) an operation runs
CommandCount(pf, op) ==
  CASE pf = "linux" ->
         IF op = "enable_kill_switch" THEN Len(LinuxEnableCmds)
         ELSE IF op = "disable_kill_switch" THEN Len(LinuxDisableCmds)
         ELSE 0
    [] pf = "macos" -> IF op = "disable_kill_switch" THEN 1 ELSE 2
    [] pf = "windows" -> IF op = "enable_kill_switch" THEN 2 ELSE 1

\* the outcomes tried for an operation of n commands: every command exits 0,
\* or one of them exits non-zero or cannot be run
OutcomeVectors(n) ==
  {[i \in 1..n |-> "ok"]} \cup
  {[[i \in 1..n |-> "ok"] EXCEPT ![k] = o] : k \in 1..n, o \in {"nonzero", "spawn_err"}}

(***************************************************************************)
(* State                                                                   *)
(***************************************************************************)
VARIABLES
  platform,        \* the target platform of the build (platform/mod.rs)
  config,          \* NipeConfig: firewall.enable_kill_switch, tor.data_directory
  pc,              \* where the CLI process is
  stop_ctx,        \* who called the stop() that is running: the caller
                   \* ("api"), start() before start_internal ("leading") or
                   \* start() after a failure ("rollback")
  tor_process,     \* NipeEngine.tor_process: 0 (None) or the pid of the child
  tor_user,        \* NipeEngine.tor_user: "none" or the resolved account
  procs,           \* the supervised processes of the host, by pid
  kill_switch,     \* host: the kill-switch rules are installed
  proxy,           \* host: the host-level proxy setting is on
  e,               \* the error start_internal returned to start()
  last,            \* the public call that returned last and its result
                   \* (NoResult while a call runs)
  ks_pre,          \* history: kill_switch when the public call was made
  rollback_runs,   \* history: rollback stop() calls made by the running start()
  attempted,       \* history: phases the running/last stop() attempted
  install_invoked, \* history: start() called enable_kill_switch
  pkill_ran,       \* history: the running/last stop() ran pkill (the fallback)
  spawned,         \* history: pid spawned by the running/last start(), or 0
  start_steps,     \* history: the steps the running/last start() completed,
                   \* in the order it completed them
  fw_host,         \* provider operations in detail: the host firewall
  fw_log,          \* history: the provider operations applied to fw_host, each
                   \* with the outcomes of its commands, its result and
                   \* the host before it
  boot_first_ok,   \* wait_for_bootstrap in detail: the number of the first
                   \* connectivity check that succeeds (0: none does)
  boot_pc,         \* where wait_for_bootstrap is
  boot_attempt,    \* the loop variable attempt
  boot_checks,     \* history: connectivity checks made
  boot_waits,      \* history: one-second sleeps made
  boot_res,        \* what wait_for_bootstrap returned
  boot_elapsed,    \* history: seconds spent in wait_for_bootstrap so far
  boot_resp,       \* history: what the last connectivity check got back
  rot_pc,          \* rotate() in detail: where rotate() is
  rot_port,        \* config.tor.control_port
  rot_peer,        \* how the peer on the control port treats the credential
  rot_conns,       \* history: the addresses rotate() connected to
  rot_wire,        \* history: the byte strings rotate() wrote, in order
  rot_reads,       \* history: reads rotate() made on the connection
  rot_inbox,       \* replies of the peer waiting unread on the connection
  rot_res,         \* what rotate() returned
  trc_cfg,         \* generate_torrc in detail: config.tor
  trc_files,       \* the transport-plugin binaries that exist on the host
  trc_texts,       \* history: the texts generated so far, in order
  peer_pc,         \* a second CLI process running `stop`: where it is
  peer_undid,      \* history: the second process removed the kill switch
                   \* that the running start() had installed
  usr_host,        \* find_tor_user in detail: what `id -u` and `id -g` do
                   \* on the host for each candidate account
  usr_pc,          \* where find_tor_user is
  usr_i,           \* the position of the loop in users
  usr_res          \* what find_tor_user returned ("none": None)

\* the variables of the provider operations taken on their own
fw_vars == << fw_host, fw_log >>

\* the variables of wait_for_bootstrap taken on its own
boot_vars == << boot_first_ok, boot_pc, boot_attempt, boot_checks, boot_waits,
                boot_res, boot_elapsed, boot_resp >>

\* the variables of rotate() taken on its own
rot_vars == << rot_pc, rot_port, rot_peer, rot_conns, rot_wire, rot_reads,
               rot_inbox, rot_res >>

\* the variables of generate_torrc taken on its own
trc_vars == << trc_cfg, trc_files, trc_texts >>

\* the variables of everything that is looked at apart from the engine
\* the variables of a second CLI process
peer_vars == << peer_pc, peer_undid >>

\* the variables of find_tor_user taken on its own
usr_vars == << usr_host, usr_pc, usr_i, usr_res >>

component_vars == << fw_vars, boot_vars, rot_vars, trc_vars, peer_vars, usr_vars >>

vars == << platform, config, pc, stop_ctx, tor_process, tor_user, procs,
           kill_switch, proxy, e, last, ks_pre, rollback_runs, attempted,
           install_invoked, pkill_ran, spawned, start_steps,
           component_vars >>

\* the engine and what it leaves behind, apart from platform and config
engine_vars == << pc, stop_ctx, tor_process, tor_user, procs, kill_switch,
                  proxy, e, last, ks_pre, rollback_runs, attempted,
                  install_invoked, pkill_ran, spawned, start_steps >>

Pids == 1..MaxProcs

Unborn == [st |-> "unborn", cmd |-> "-", mine |-> FALSE, detached |-> FALSE,
           handle_kills |-> 0]

Alive(p) == procs[p].st = "alive"

StopPhases == {"disable_kill_switch", "disable_socks_proxy", "process"}

\* engine.rs:19-25 (NipeEngine::new); the host starts with no supervised
\* process, no kill switch and no proxy setting
EngineAtRest ==
  /\ pc = "idle"
  /\ stop_ctx = "none"
  /\ tor_process = 0
  /\ tor_user = "none"
  /\ procs = [p \in Pids |-> Unborn]
  /\ kill_switch = FALSE
  /\ proxy = FALSE
  /\ e = Ok
  /\ last = NoResult
  /\ ks_pre = FALSE
  /\ rollback_runs = 0
  /\ attempted = {}
  /\ install_invoked = FALSE
  /\ pkill_ran = FALSE
  /\ spawned = 0
  /\ start_steps = <<>>

\* no provider operation is looked at on its own
FwAtRest == fw_host = CleanHost /\ fw_log = <<>>

\* wait_for_bootstrap is not looked at on its own
BootAtRest ==
  /\ boot_first_ok = 0
  /\ boot_pc = "idle"
  /\ boot_attempt = 0
  /\ boot_checks = 0
  /\ boot_waits = 0
  /\ boot_res = Ok
  /\ boot_elapsed = 0
  /\ boot_resp = "-"

\* rotate() is not looked at on its own
RotAtRest ==
  /\ rot_pc = "idle"
  /\ rot_port = 0
  /\ rot_peer = "-"
  /\ rot_conns = <<>>
  /\ rot_wire = <<>>
  /\ rot_reads = 0
  /\ rot_inbox = <<>>
  /\ rot_res = Ok

\* generate_torrc is not looked at on its own
TrcAtRest ==
  /\ trc_cfg = "-"
  /\ trc_files = {}
  /\ trc_texts = <<>>

\* no second CLI process runs
PeerAtRest == peer_pc = "absent" /\ peer_undid = FALSE

\* find_tor_user is not looked at on its own
UsrAtRest ==
  /\ usr_host = <<>>
  /\ usr_pc = "idle"
  /\ usr_i = 0
  /\ usr_res = "none"

Init ==
  /\ platform \in Platforms
  /\ config \in Configs
  /\ EngineAtRest
  /\ FwAtRest
  /\ BootAtRest
  /\ RotAtRest
  /\ PeerAtRest
  /\ UsrAtRest
  /\ TrcAtRest

(***************************************************************************)
(* stop()  (engine.rs:244-270)                                             *)
(***************************************************************************)
\* where a stop() that returns r hands control: to the caller, to
\* start_internal (engine.rs:101, result dropped) or to the end of start()
\* (engine.rs:107-108)
StopReturns(r) ==
  /\ stop_ctx' = "none"
  /\ CASE stop_ctx = "api" ->
            pc' = "idle" /\ last' = [op |-> "stop", res |-> r]
       [] stop_ctx = "leading" ->
            pc' = "find_tor_user" /\ last' = last
       [] stop_ctx = "rollback" ->
            pc' = "idle" /\ last' = [op |-> "start", res |-> StartResult(e, r)]

\* a `?` of stop(): Ok goes on to the next phase, an error returns it
StopStep(r, next) ==
  IF r = Ok
  THEN pc' = next /\ UNCHANGED <<stop_ctx, last>>
  ELSE StopReturns(r)

\* main.rs:173-175 and 236-239: the caller calls engine.stop()
StopCall ==
  /\ pc = "idle"
  /\ pc' = "stop_firewall_new"
  /\ stop_ctx' = "api"
  /\ e' = Ok
  /\ last' = NoResult
  /\ ks_pre' = kill_switch
  /\ rollback_runs' = 0
  /\ attempted' = {}
  /\ install_invoked' = FALSE
  /\ pkill_ran' = FALSE
  /\ spawned' = 0
  /\ start_steps' = <<>>
  /\ UNCHANGED << component_vars, platform, config, tor_process, tor_user, procs,
                  kill_switch, proxy >>

\* engine.rs:248  let firewall = Firewall::new()?
StopFirewallNew ==
  /\ pc = "stop_firewall_new"
  /\ \E iface_found \in Flags(platform, {"macos"}) :
       StopStep(FirewallNew(platform, iface_found), "stop_disable_kill_switch")
  /\ UNCHANGED << component_vars, platform, config, tor_process, tor_user, procs,
                  kill_switch, proxy, e, ks_pre, rollback_runs, attempted,
                  install_invoked, pkill_ran, spawned, start_steps >>

\* engine.rs:249  firewall.disable_kill_switch()?
StopDisableKillSwitch ==
  /\ pc = "stop_disable_kill_switch"
  /\ attempted' = attempted \cup {"disable_kill_switch"}
  /\ \E o1 \in CmdOutcome :
       LET r == DisableKillSwitch(platform, o1, kill_switch, proxy) IN
         /\ kill_switch' = r.ks
         /\ proxy' = r.proxy
         /\ StopStep(r.res, "stop_disable_socks_proxy")
  /\ UNCHANGED << component_vars, platform, config, tor_process, tor_user, procs, e,
                  ks_pre, rollback_runs, install_invoked, pkill_ran, spawned, start_steps >>

\* engine.rs:250  firewall.disable_socks_proxy()?
StopDisableSocksProxy ==
  /\ pc = "stop_disable_socks_proxy"
  /\ attempted' = attempted \cup {"disable_socks_proxy"}
  /\ \E o1 \in Outcomes(platform, {"macos", "windows"}),
        o2 \in Outcomes(platform, {"macos"}) :
       LET r == DisableSocksProxy(platform, o1, o2, kill_switch, proxy) IN
         /\ kill_switch' = r.ks
         /\ proxy' = r.proxy
         /\ StopStep(r.res, "stop_process")
  /\ UNCHANGED << component_vars, platform, config, tor_process, tor_user, procs, e,
                  ks_pre, rollback_runs, install_invoked, pkill_ran, spawned, start_steps >>

\* engine.rs:261-265  pkill -f <pattern>: every live process whose command
\* line the pattern matches is terminated
Pkill(ps, cfg) ==
  [p \in Pids |->
     IF ps[p].st = "alive" /\ PkillMatches(CommandLine(ps[p].cmd, cfg))
     THEN [ps[p] EXCEPT !.st = "dead"]
     ELSE ps[p]]

\* mutant: the handle is given up only when the kill succeeded
StopProcess_HandleKeptOnFailure ==
  /\ pc = "stop_process"
  /\ attempted' = attempted \cup {"process"}
  /\ IF tor_process # 0
     THEN /\ pkill_ran' = pkill_ran
          /\ \E kill_ok \in BOOLEAN :
               /\ tor_process' = IF kill_ok THEN 0 ELSE tor_process
               /\ procs' = [procs EXCEPT
                              ![tor_process].st = IF kill_ok THEN "dead" ELSE @,
                              ![tor_process].handle_kills = @ + 1]
               /\ StopReturns(IF kill_ok THEN Ok
                              ELSE Err("TorStopFailed", "kill"))
     ELSE /\ tor_process' = tor_process
          /\ \E pkill_runs \in BOOLEAN :
               /\ pkill_ran' = pkill_runs
               /\ procs' = IF pkill_runs THEN Pkill(procs, config) ELSE procs
          /\ StopReturns(Ok)
  /\ UNCHANGED << component_vars, platform, config, tor_user, kill_switch, proxy, e,
                  ks_pre, rollback_runs, install_invoked, spawned, start_steps >>

\* engine.rs:253-269  the process phase: kill the held child (the handle is
\* taken before the kill, so it is gone whatever the kill returns), or, with
\* no handle, the pkill fallback whose outcome is dropped
StopProcess ==
  /\ pc = "stop_process"
  /\ attempted' = attempted \cup {"process"}
  /\ IF tor_process # 0
     THEN /\ tor_process' = 0
          /\ pkill_ran' = pkill_ran
          /\ \E kill_ok \in BOOLEAN :
               /\ procs' = [procs EXCEPT
                              ![tor_process].st = IF kill_ok THEN "dead" ELSE @,
                              ![tor_process].handle_kills = @ + 1]
               /\ StopReturns(IF kill_ok THEN Ok
                              ELSE Err("TorStopFailed", "kill"))
     ELSE /\ tor_process' = tor_process
          /\ \E pkill_runs \in BOOLEAN :
               /\ pkill_ran' = pkill_runs
               /\ procs' = IF pkill_runs THEN Pkill(procs, config) ELSE procs
          /\ StopReturns(Ok)
  /\ UNCHANGED << component_vars, platform, config, tor_user, kill_switch, proxy, e,
                  ks_pre, rollback_runs, install_invoked, spawned, start_steps >>

(***************************************************************************)
(* start()  (engine.rs:97-111) and start_internal()  (engine.rs:113-242)   *)
(***************************************************************************)
\* engine.rs:105-107  start_internal returned err: start() keeps it and
\* calls stop() as rollback
Fails(err) ==
  /\ e' = err
  /\ rollback_runs' = rollback_runs + 1
  /\ pc' = "stop_firewall_new"
  /\ stop_ctx' = "rollback"
  /\ attempted' = {}
  /\ pkill_ran' = FALSE

\* a `?` of start_internal: Ok goes on to the next stage, an error leaves
\* start_internal
StartStep(r, next) ==
  IF r = Ok
  THEN pc' = next /\ UNCHANGED <<e, rollback_runs, stop_ctx, attempted, pkill_ran>>
  ELSE Fails(r)

\* main.rs:146-148 and 247: the caller calls engine.start(), which first
\* calls stop() (engine.rs:101)
StartCall ==
  /\ pc = "idle"
  /\ \E p \in Pids : procs[p].st = "unborn"
  /\ pc' = "stop_firewall_new"
  /\ stop_ctx' = "leading"
  /\ e' = Ok
  /\ ks_pre' = kill_switch
  /\ rollback_runs' = 0
  /\ attempted' = {}
  /\ install_invoked' = FALSE
  /\ pkill_ran' = FALSE
  /\ spawned' = 0
  /\ start_steps' = <<>>
  /\ last' = NoResult
  /\ UNCHANGED << component_vars, platform, config, tor_process, tor_user, procs, kill_switch,
                  proxy >>

\* engine.rs:116  self.tor_user = Self::find_tor_user()
StartFindTorUser ==
  /\ pc = "find_tor_user"
  /\ \E probe \in Probes : tor_user' = FindTorUser(probe)
  /\ pc' = "fs_stages"
  /\ UNCHANGED << component_vars, platform, config, stop_ctx, tor_process, procs, kill_switch,
                  proxy, e, last, ks_pre, rollback_runs, attempted,
                  install_invoked, pkill_ran, spawned, start_steps >>

\* the sets of failing stages tried: none, any one stage, and any one
\* stage together with the last one
Failings ==
  {{}} \cup {{i} : i \in 1..Len(Stages)} \cup {{i, Len(Stages)} : i \in 1..Len(Stages)}

\* engine.rs:120-201  the file-system stages before the spawn
StartFsStages ==
  /\ pc = "fs_stages"
  /\ \E failing \in Failings, log_dir_exists \in BOOLEAN :
       /\ StartStep(RunStages(failing, tor_user, log_dir_exists), "spawn")
       /\ start_steps' = start_steps \o StagesDone(failing, tor_user, log_dir_exists)
  /\ UNCHANGED << component_vars, platform, config, tor_process, tor_user, procs, kill_switch,
                  proxy, last, ks_pre, install_invoked, spawned >>

\* the pid the next child gets
NextPid == CHOOSE p \in Pids :
             /\ procs[p].st = "unborn"
             /\ \A q \in Pids : q < p => procs[q].st # "unborn"

\* engine.rs:204-223  resolve the binary, spawn it with -f <torrc> and store
\* the child in self.tor_process (whatever it held before)
StartSpawn ==
  /\ pc = "spawn"
  /\ \E host \in HostTors, exec_ok \in BOOLEAN :
       IF SpawnSucceeds(host, exec_ok)
       THEN /\ procs' = [procs EXCEPT ![NextPid] =
                           [st |-> "alive", cmd |-> FindTorPath(host.existing),
                            mine |-> TRUE, detached |-> FALSE, handle_kills |-> 0]]
            /\ tor_process' = NextPid
            /\ spawned' = NextPid
            /\ start_steps' = Append(start_steps, "spawn")
            /\ StartStep(Ok, "wait_for_bootstrap")
       ELSE /\ UNCHANGED <<procs, tor_process, spawned, start_steps>>
            /\ StartStep(SpawnError, "wait_for_bootstrap")
  /\ UNCHANGED << component_vars, platform, config, tor_user, kill_switch, proxy, last,
                  ks_pre, install_invoked >>

\* engine.rs:227  self.wait_for_bootstrap().await?
StartWaitForBootstrap ==
  /\ pc = "wait_for_bootstrap"
  /\ \E first_ok \in FirstOks :
       /\ StartStep(WaitForBootstrap(first_ok).res, "start_firewall_new")
       /\ start_steps' = IF WaitForBootstrap(first_ok).res = Ok
                         THEN Append(start_steps, "bootstrap")
                         ELSE start_steps
  /\ UNCHANGED << component_vars, platform, config, tor_process, tor_user, procs,
                  kill_switch, proxy, last, ks_pre, install_invoked, spawned >>

\* engine.rs:231  let firewall = Firewall::new()?
StartFirewallNew ==
  /\ pc = "start_firewall_new"
  /\ \E iface_found \in Flags(platform, {"macos"}) :
       StartStep(FirewallNew(platform, iface_found), "enable_kill_switch")
  /\ UNCHANGED << component_vars, platform, config, tor_process, tor_user, procs,
                  kill_switch, proxy, last, ks_pre, install_invoked, spawned, start_steps >>

\* engine.rs:232  firewall.enable_kill_switch()?  (config.firewall is not read)
StartEnableKillSwitch ==
  /\ pc = "enable_kill_switch"
  /\ install_invoked' = TRUE
  /\ start_steps' = Append(start_steps, "firewall")
  /\ \E written \in Flags(platform, {"macos"}),
        o1 \in Outcomes(platform, {"linux", "windows"}),
        o2 \in Outcomes(platform, {"macos", "windows"}) :
       LET r == EnableKillSwitch(platform, written, o1, o2, kill_switch, proxy) IN
         /\ kill_switch' = r.ks
         /\ proxy' = r.proxy
         /\ StartStep(r.res, "enable_socks_proxy")
  /\ UNCHANGED << component_vars, platform, config, tor_process, tor_user, procs, last,
                  ks_pre, spawned >>

\* engine.rs:233  firewall.enable_socks_proxy(self.config.tor.socks_port)?
StartEnableSocksProxy ==
  /\ pc = "enable_socks_proxy"
  /\ \E o1 \in Outcomes(platform, {"macos", "windows"}),
        o2 \in Outcomes(platform, {"macos"}) :
       LET r == EnableSocksProxy(platform, o1, o2, kill_switch, proxy) IN
         /\ kill_switch' = r.ks
         /\ proxy' = r.proxy
         /\ StartStep(r.res, "detach")
  /\ UNCHANGED << component_vars, platform, config, tor_process, tor_user, procs, last,
                  ks_pre, install_invoked, spawned, start_steps >>

\* engine.rs:239-241 and 104  the handle is taken out of the engine and
\* dropped without a kill; start() returns Ok
StartDetach ==
  /\ pc = "detach"
  /\ procs' = [procs EXCEPT ![tor_process].detached = TRUE]
  /\ tor_process' = 0
  /\ pc' = "idle"
  /\ last' = [op |-> "start", res |-> Ok]
  /\ UNCHANGED << component_vars, platform, config, stop_ctx, tor_user, kill_switch,
                  proxy, e, ks_pre, rollback_runs, attempted, install_invoked,
                  pkill_ran, spawned, start_steps >>

(***************************************************************************)
(* The end of the CLI process (main.rs) and the next invocation            *)
(***************************************************************************)
\* the bookkeeping of the calls ends with the process
Forgotten ==
  /\ e' = Ok
  /\ last' = NoResult
  /\ ks_pre' = FALSE
  /\ rollback_runs' = 0
  /\ attempted' = {}
  /\ install_invoked' = FALSE
  /\ pkill_ran' = FALSE
  /\ spawned' = 0
  /\ start_steps' = <<>>

\* engine.rs:432-441  Drop, when main returns: a held child gets kill -9
Drop ==
  /\ pc = "idle"
  /\ pc' = "exited"
  /\ tor_process' = 0
  /\ procs' = IF tor_process = 0 THEN procs
              ELSE [procs EXCEPT ![tor_process].st = "dead",
                                 ![tor_process].handle_kills = @ + 1]
  /\ Forgotten
  /\ UNCHANGED << component_vars, platform, config, stop_ctx, tor_user, kill_switch, proxy >>

\* main.rs:161-164 and 188-191  std::process::exit(1) after a failed call:
\* the process ends without running Drop
ProcessExit ==
  /\ pc = "idle"
  /\ last.res # Ok
  /\ pc' = "exited"
  /\ tor_process' = 0
  /\ Forgotten
  /\ UNCHANGED << component_vars, platform, config, stop_ctx, tor_user, procs, kill_switch,
                  proxy >>

\* main.rs:146, 173, 236 and engine.rs:19-25  a later invocation of the CLI
\* builds a fresh engine; the host keeps its firewall state and its
\* processes (of a dead one only that it is dead)
NewEngine ==
  /\ pc = "exited"
  /\ pc' = "idle"
  /\ tor_user' = "none"
  /\ procs' = [p \in Pids |->
                 CASE procs[p].st = "alive" -> [procs[p] EXCEPT !.mine = FALSE]
                   [] procs[p].st = "dead" -> [Unborn EXCEPT !.st = "dead"]
                   [] procs[p].st = "unborn" -> Unborn]
  /\ UNCHANGED << component_vars, platform, config, stop_ctx, tor_process, kill_switch, proxy,
                  e, last, ks_pre, rollback_runs, attempted, install_invoked,
                  pkill_ran, spawned, start_steps >>

Next ==
  \/ StopCall
  \/ StopFirewallNew
  \/ StopDisableKillSwitch
  \/ StopDisableSocksProxy
  \/ StopProcess
  \/ StartCall
  \/ StartFindTorUser
  \/ StartFsStages
  \/ StartSpawn
  \/ StartWaitForBootstrap
  \/ StartFirewallNew
  \/ StartEnableKillSwitch
  \/ StartEnableSocksProxy
  \/ StartDetach
  \/ Drop
  \/ ProcessExit
  \/ NewEngine

Spec == Init /\ [][Next]_vars

(***************************************************************************)
(* Properties                                                              *)
(***************************************************************************)
StartReturned == pc = "idle" /\ last.op = "start"
StartFailed == StartReturned /\ last.res # Ok
StartSucceeded == StartReturned /\ last.res = Ok
StopReturned == pc = "idle" /\ last.op = "stop"

\* C1: whenever start() returns an error, it has run stop() exactly once as
\* rollback and the error it returns is the error the failing stage raised,
\* whatever the rollback stop() returned.
C1_RollbackKeepsError ==
  StartFailed => /\ rollback_runs = 1
                 /\ e # Ok
                 /\ last.res = e

\* C1 witness: start() returned the bootstrap timeout although its rollback
\* stop() returned early with an error of its own
C1_Witness ==
  /\ StartFailed
  /\ last.res = Err("BootstrapTimeout", "wait_for_bootstrap")
  /\ rollback_runs = 1
  /\ attempted # StopPhases

\* C2 as stated: after a start() whose spawn failed, the result is
\* start-failed and the kill switch is as it was before the call, also when
\* it was enabled before.
C2_Original ==
  (StartReturned /\ e.site = "spawn") =>
     /\ last.res.kind = "TorStartFailed"
     /\ kill_switch = ks_pre

\* C2 amended: after a start() whose spawn failed, the result is start-failed
\* and the call has not enabled the kill switch: a kill switch that was
\* disabled before the call is disabled after it.
C2_SpawnFailureNeverEnables ==
  (StartReturned /\ e.site = "spawn") =>
     /\ last.res.kind = "TorStartFailed"
     /\ (~ks_pre => ~kill_switch)

\* C2 witness: the spawn failed in a start() that found the kill switch
\* enabled and left it disabled
C2_Witness ==
  /\ StartReturned
  /\ e.site = "spawn"
  /\ last.res.kind = "TorStartFailed"
  /\ ks_pre
  /\ ~kill_switch

\* C3: when stop() returns, every phase (disable kill switch, disable proxy
\* forwarding, terminate the process) has been attempted, whatever an
\* earlier phase returned.
C3_AllPhasesAttempted ==
  StopReturned => attempted = StopPhases

\* C4: whenever start() returns an error the engine holds no handle, the
\* process that start() spawned is not alive, and kill switch and proxy
\* forwarding are disabled.
C4_FailedStartUnwound ==
  StartFailed => /\ tor_process = 0
                 /\ spawned # 0 => ~Alive(spawned)
                 /\ ~kill_switch
                 /\ ~proxy

\* C5: whenever start() returns success the kill switch is enabled, proxy
\* forwarding is enabled (where the platform has such a setting), the engine
\* holds no handle, the process was detached, and it is alive, also after
\* the engine is torn down.
C5_SuccessPosture ==
  [][ /\ StartSucceeded' =>
           /\ kill_switch'
           /\ HasProxySetting(platform) => proxy'
           /\ tor_process' = 0
           /\ procs'[spawned'].detached
           /\ procs'[spawned'].st = "alive"
      /\ (StartSucceeded /\ pc' = "exited") => procs'[spawned].st = "alive"
    ]_vars

\* C6: with firewall.enable_kill_switch = false, start() never calls the
\* rule-installing enable_kill_switch.
C6_NoInstallWhenSwitchedOff ==
  ~config.enable_kill_switch => ~install_invoked

\* the processes the current engine spawned that are alive and not detached
OwnedAlive == {p \in Pids : Alive(p) /\ procs[p].mine /\ ~procs[p].detached}

\* C7: at most one process spawned by the engine is alive and not detached.
C7_AtMostOneOwnedAlive ==
  Cardinality(OwnedAlive) <= 1

\* C8: when the CLI process ends, every process its engine spawned was either
\* killed through its handle exactly once or detached (and then never
\* killed through a handle), and a process is detached only by a start()
\* that returns success.
C8_KilledOrDetachedOnce ==
  [][ /\ pc' = "exited" =>
           \A p \in Pids : procs'[p].mine =>
              \/ procs'[p].detached /\ procs'[p].handle_kills = 0
              \/ ~procs'[p].detached /\ procs'[p].handle_kills = 1
      /\ \A p \in Pids : (~procs[p].detached /\ procs'[p].detached) => StartSucceeded'
    ]_vars

\* C9: a stop() on an engine without a handle that ran its pkill fallback
\* has terminated every detached supervised process.
C9_FallbackTerminatesDetached ==
  (StopReturned /\ pkill_ran) =>
     \A p \in Pids : procs[p].detached => ~Alive(p)

\* C10: when start() returns success after an earlier start() had succeeded
\* and detached its process, and the leading stop() of this start() reached
\* its pkill fallback, the process this start() spawned is the only
\* supervised process alive.
C10_SecondStartLeavesOne ==
  (StartSucceeded /\ pkill_ran /\ \E q \in Pids : q # spawned /\ procs[q].detached) =>
     {p \in Pids : Alive(p)} = {spawned}

\* nothing is there to stop: the engine holds no handle, no supervised
\* process was ever spawned, and neither the kill switch nor the proxy
\* setting is on
NothingToStop ==
  /\ tor_process = 0
  /\ \A p \in Pids : procs[p].st = "unborn"
  /\ ~kill_switch
  /\ ~proxy

\* C11: a stop() called by the user when there is nothing to stop returns
\* success, on every platform and whatever the firewall construction or the
\* rule-removal commands report.
C11_NothingToStopSucceeds ==
  [][ (stop_ctx = "api" /\ NothingToStop /\ last'.op = "stop") => last'.res = Ok ]_vars

\* C23: the steps of start() complete in the order data-directory setup,
\* configuration generation, spawn, bootstrap verification, firewall
\* activation: the process is spawned only with the configuration file
\* written, and enable_kill_switch is called only with the bootstrap verified
\* in the same start().
C23_StepsInOrder ==
  /\ Len(start_steps) <= Len(StartOrder)
  /\ start_steps = SubSeq(StartOrder, 1, Len(start_steps))
  /\ spawned # 0 => \E i \in DOMAIN start_steps : start_steps[i] = "generate_torrc"
  /\ install_invoked => \E i \in DOMAIN start_steps : start_steps[i] = "bootstrap"

\* a start() went through all its steps and returned success
C23_Witness ==
  /\ StartSucceeded
  /\ start_steps = StartOrder
  /\ spawned # 0
  /\ install_invoked

\* engine.rs:213-217  the account the child runs under: the resolved account
\* (cmd.uid, cmd.gid), or with none resolved the account of the CLI process,
\* which is root (engine.rs:62, 176-177)
SpawnAccount(user) == IF user = "none" THEN "root" ELSE user

\* C24: on Linux, with the kill switch installed by a start() that spawned
\* the supervised process, the account the allow-owner rule names is the
\* account the process was spawned under, for every outcome of
\* find_tor_user.
C24_AllowOwnerIsSpawnAccount ==
  (/\ platform = "linux"
   /\ spawned # 0
   /\ install_invoked
   /\ kill_switch)
  => ExemptAccount(platform) = SpawnAccount(tor_user)

\* C35: a stop() that reaches its process phase holding a handle tries to
\* terminate that process and holds no handle afterwards, whether the
\* termination succeeded or failed; a failed termination is returned as the
\* stop-failed error; and no process is ever signalled twice through its
\* handle, so the teardown after such a stop() issues no second kill.
C35_StopClearsHandle ==
  [][ /\ (pc = "stop_process" /\ tor_process # 0) =>
           /\ tor_process' = 0
           /\ procs'[tor_process].handle_kills = procs[tor_process].handle_kills + 1
           /\ stop_ctx = "api" =>
                /\ last'.op = "stop"
                /\ last'.res \in {Ok, Err("TorStopFailed", "kill")}
                /\ last'.res = Ok => procs'[tor_process].st = "dead"
                /\ procs'[tor_process].st = "alive" =>
                     last'.res = Err("TorStopFailed", "kill")
      /\ \A p \in Pids : procs'[p].handle_kills <= 1 ]_vars

\* a stop() called with a handle held has returned the stop-failed error:
\* the process it signalled once is still alive and the handle is gone
C35_Witness ==
  /\ pc = "idle"
  /\ last = [op |-> "stop", res |-> Err("TorStopFailed", "kill")]
  /\ tor_process = 0
  /\ \E p \in Pids : Alive(p) /\ procs[p].handle_kills = 1

\* the CLI process running is the first to act on the host: every process
\* of the host was started by its engine
FirstInvocation ==
  /\ pc # "exited"
  /\ \A p \in Pids : procs[p].st = "unborn" \/ procs[p].mine

\* C36: while a single process makes start() and stop() calls, in every
\* state in which the kill switch is enabled a supervised process started
\* by this program is alive: the host is never left with the kill switch on
\* and no proxy process.
C36_KillSwitchHasProcess ==
  (FirstInvocation /\ kill_switch) => \E p \in Pids : Alive(p) /\ procs[p].mine

(***************************************************************************)
(* The provider operations taken on their own: any sequence of at most     *)
(* MaxFwOps operations on a host that may hold rules of its own.           *)
(***************************************************************************)
\* the default configuration (config.rs:40-65)
DefaultConfig ==
  [enable_kill_switch |-> TRUE, data_directory |-> DefaultDataDirectory]

FwInit ==
  /\ platform \in Platforms
  /\ config = DefaultConfig
  /\ EngineAtRest
  /\ fw_host \in Hosts(platform)
  /\ fw_log = <<>>
  /\ BootAtRest
  /\ RotAtRest
  /\ PeerAtRest
  /\ UsrAtRest
  /\ TrcAtRest

\* one call of a provider operation; the environment chooses the outcomes
\* of its commands
FwCall(op) ==
  /\ \E outs \in OutcomeVectors(CommandCount(platform, op)) :
       LET r == ProviderOp(platform, op, outs, fw_host) IN
         /\ fw_host' = r.host
         /\ fw_log' = Append(fw_log, [op |-> op, outs |-> outs, res |-> r.res,
                                      pre |-> fw_host])
  /\ UNCHANGED << platform, config, engine_vars, peer_vars, usr_vars, boot_vars, rot_vars, trc_vars >>

\* platform/mod.rs:23-31  the four operations, callable in any order
FwEnableKillSwitch ==
  /\ Len(fw_log) < MaxFwOps
  /\ FwCall("enable_kill_switch")

FwDisableKillSwitch ==
  /\ Len(fw_log) < MaxFwOps
  /\ FwCall("disable_kill_switch")

FwEnableSocksProxy ==
  /\ Len(fw_log) < MaxFwOps
  /\ FwCall("enable_socks_proxy")

FwDisableSocksProxy ==
  /\ Len(fw_log) < MaxFwOps
  /\ FwCall("disable_socks_proxy")

FwNext ==
  \/ FwEnableKillSwitch
  \/ FwDisableKillSwitch
  \/ FwEnableSocksProxy
  \/ FwDisableSocksProxy

FwSpec == FwInit /\ [][FwNext]_vars

\* the host after the i-th operation of the log
After(i) == IF i = Len(fw_log) THEN fw_host ELSE fw_log[i + 1].pre

\* every command of the operation ran and exited 0
Clean(entry) == \A k \in DOMAIN entry.outs : entry.outs[k] = "ok"

\* every command of the operation could be run
Ran(entry) == \A k \in DOMAIN entry.outs : entry.outs[k] # "spawn_err"

\* the kill-switch rules of the program, and nothing else, are in force
KsInstalled(pf, h) ==
  CASE pf = "linux" -> h.nat = NatRules /\ h.filter = FilterRules
    [] pf = "macos" -> h.pf_enabled /\ h.pf_rules = PfRules
    [] pf = "windows" -> Len(SelectSeq(h.adv, LAMBDA r : r = WinRule)) = 1

\* no kill-switch rule of the program is in force
KsAbsent(pf, h) ==
  CASE pf = "linux" ->
         \A i \in 1..Len(h.nat) + Len(h.filter) :
           (h.nat \o h.filter)[i] \notin
             {NatRules[j] : j \in 1..Len(NatRules)} \cup
             {FilterRules[j] : j \in 1..Len(FilterRules)}
    [] pf = "macos" -> ~(h.pf_enabled /\ h.pf_rules = PfRules)
    [] pf = "windows" -> SelectSeq(h.adv, LAMBDA r : r = WinRule) = <<>>

\* the rule set of the host as it can be observed: on macOS the loaded
\* rules count only while PF is enabled
Ruleset(pf, h) ==
  CASE pf = "linux" -> <<h.nat, h.filter, h.chains>>
    [] pf = "macos" -> <<h.pf_enabled, IF h.pf_enabled THEN h.pf_rules ELSE <<>> >>
    [] pf = "windows" -> <<h.adv>>

\* C12: disable_kill_switch() and disable_socks_proxy() return success on
\* a host where neither the kill switch nor the proxy setting was ever
\* enabled, also when a removal command exits with a non-zero status.
C12_DisableSucceedsWhenNeverEnabled ==
  \A i \in 1..Len(fw_log) :
    ( /\ fw_log[i].op \in {"disable_kill_switch", "disable_socks_proxy"}
      /\ \A j \in 1..(i - 1) :
           fw_log[j].op \in {"disable_kill_switch", "disable_socks_proxy"}
      /\ KsAbsent(platform, fw_log[1].pre)
      /\ ~fw_log[1].pre.proxy
      /\ Ran(fw_log[i]) )
    => fw_log[i].res = Ok

\* C13: enable_kill_switch() followed by disable_kill_switch(), every
\* command of both exiting 0, leaves the rule set of the host as it was
\* before the enable, rules and user chains of others included.
C13_EnableDisableRestores ==
  \A i \in 1..(Len(fw_log) - 1) :
    ( /\ fw_log[i].op = "enable_kill_switch" /\ Clean(fw_log[i])
      /\ fw_log[i + 1].op = "disable_kill_switch" /\ Clean(fw_log[i + 1]) )
    => Ruleset(platform, After(i + 1)) = Ruleset(platform, fw_log[i].pre)

\* the state an operation is there to establish
TargetHolds(pf, op, h) ==
  CASE op = "enable_kill_switch" -> KsInstalled(pf, h)
    [] op = "disable_kill_switch" ->
         /\ KsAbsent(pf, h)
         /\ ProviderOp(pf, op, [k \in 1..CommandCount(pf, op) |-> "ok"], h).host = h
    [] op = "enable_socks_proxy" -> h.proxy
    [] op = "disable_socks_proxy" -> ~h.proxy

\* C14: with every command exiting 0, enable_kill_switch() called twice
\* leaves the rule set one call leaves, and each of the four operations
\* called when its target state already holds returns success and leaves
\* the host unchanged.
C14_OperationsIdempotent ==
  /\ \A i \in 1..(Len(fw_log) - 1) :
       ( /\ fw_log[i].op = "enable_kill_switch" /\ Clean(fw_log[i])
         /\ fw_log[i + 1].op = "enable_kill_switch" /\ Clean(fw_log[i + 1]) )
       => Ruleset(platform, After(i + 1)) = Ruleset(platform, After(i))
  /\ \A i \in 1..Len(fw_log) :
       (Clean(fw_log[i]) /\ TargetHolds(platform, fw_log[i].op, fw_log[i].pre))
       => (fw_log[i].res = Ok /\ After(i) = fw_log[i].pre)

\* C15: after enable_kill_switch() with every command exiting 0, a new
\* outbound IPv4 TCP or UDP packet on the default-route interface leaves the
\* host directly only if the account the rules exempt owns it; every other
\* such packet, a DNS query to port 53 included, is blocked or redirected.
C15_OnlyExemptAccountLeaves ==
  \A i \in 1..Len(fw_log) :
    (fw_log[i].op = "enable_kill_switch" /\ Clean(fw_log[i]))
    => \A pkt \in Packets :
         ( /\ pkt.st = "NEW" /\ pkt.fam = "inet" /\ pkt.iface = "ext"
           /\ pkt.proto \in {"tcp", "udp"}
           /\ Verdict(platform, After(i), pkt) = "direct" )
         => pkt.owner = ExemptAccount(platform)

\* the commands of enable_kill_switch that install rules, by position
InstallCommands(pf) ==
  CASE pf = "linux" -> 3..Len(LinuxEnableCmds)
    [] pf = "macos" -> {2}
    [] pf = "windows" -> {2}

\* C16: when a rule-installing command of enable_kill_switch() exits with a
\* non-zero status, enable_kill_switch() returns a firewall error, not
\* success.
C16_NonZeroExitIsAnError ==
  \A i \in 1..Len(fw_log) :
    ( /\ fw_log[i].op = "enable_kill_switch"
      /\ \E k \in InstallCommands(platform) : fw_log[i].outs[k] = "nonzero" )
    => fw_log[i].res # Ok

\* C25: on Linux, after an enable_kill_switch whose commands all succeeded,
\* a new TCP connection of another account than the exempt one to a port
\* other than DNS that the nat rules redirect is redirected to the
\* socks_port of the configuration, never to its control port.
C25_TcpRedirectedToSocksPort ==
  \A i \in 1..Len(fw_log) :
    (/\ platform = "linux"
     /\ fw_log[i].op = "enable_kill_switch"
     /\ Clean(fw_log[i]))
    => \A pkt \in Packets :
         (/\ pkt.proto = "tcp" /\ pkt.dport # 53
          /\ pkt.st = "NEW" /\ pkt.fam = "inet"
          /\ pkt.owner # ExemptAccount(platform)
          /\ RedirectTarget(After(i), pkt) # 0)
         => /\ RedirectTarget(After(i), pkt) = DefaultSocksPort
            /\ RedirectTarget(After(i), pkt) # DefaultControlPort

\* C26: on Linux, after an enable_kill_switch whose commands all succeeded,
\* a new UDP DNS query of an ordinary application is redirected to the DNS
\* port and then accepted: the filter rules do not reject the packet the
\* redirect rules rewrote.
C26_RedirectedDnsAccepted ==
  \A i \in 1..Len(fw_log) :
    (/\ platform = "linux"
     /\ fw_log[i].op = "enable_kill_switch"
     /\ Clean(fw_log[i]))
    => \A pkt \in Packets :
         (/\ pkt.proto = "udp" /\ pkt.dport = 53
          /\ pkt.st = "NEW" /\ pkt.fam = "inet"
          /\ pkt.owner = "user"
          /\ RedirectTarget(After(i), pkt) = DefaultDnsPort)
         => Verdict(platform, After(i), pkt) = "redirected"

\* C27: on macOS, after an enable_kill_switch whose commands all succeeded,
\* every outbound IPv6 packet is dropped: no pass rule ahead of the IPv6
\* block lets one out.
C27_Ipv6Dropped ==
  \A i \in 1..Len(fw_log) :
    (/\ platform = "macos"
     /\ fw_log[i].op = "enable_kill_switch"
     /\ Clean(fw_log[i]))
    => \A pkt \in Packets :
         pkt.fam = "inet6" => Verdict(platform, After(i), pkt) = "blocked"

\* the rules of the host firewall that carry the kill switch's name
NamedKillSwitch(h) == SelectSeq(h.adv, LAMBDA r : r.name = WinRule.name)

\* C28: on Windows, whatever enable and disable calls were made, at most one
\* rule named "Nipe Kill Switch" exists, and after an enable_kill_switch
\* that returned success exactly one exists, the deny-all-outbound rule.
C28_OneNamedRule ==
  platform = "windows" =>
    /\ Len(NamedKillSwitch(fw_host)) <= 1
    /\ \A i \in 1..Len(fw_log) :
         (fw_log[i].op = "enable_kill_switch" /\ fw_log[i].res = Ok)
         => NamedKillSwitch(After(i)) = <<WinRule>>

\* C29: on macOS a disable_socks_proxy() that returned success leaves the
\* packet filter disabled and the rules file removed; on the other platforms
\* disable_socks_proxy() leaves the kill-switch rules as they were.
C29_DisableProxyDisablesKillSwitch ==
  \A i \in 1..Len(fw_log) :
    fw_log[i].op = "disable_socks_proxy" =>
      /\ (platform = "macos" /\ fw_log[i].res = Ok) =>
           /\ ~After(i).pf_enabled
           /\ ~After(i).rules_file
      /\ platform # "macos" =>
           Ruleset(platform, After(i)) = Ruleset(platform, fw_log[i].pre)

(***************************************************************************)
(* wait_for_bootstrap (engine.rs:291-312) taken on its own, one step per   *)
(* connectivity check and per sleep.                                       *)
(***************************************************************************)
\* mutant: the loop runs while attempt <= max_attempts
Exhausted_OneMore(attempt) == attempt > max_attempts

\* engine.rs:295  for attempt in 0..max_attempts: the range is used up
Exhausted(attempt) == attempt >= max_attempts

\* engine.rs:296, 314-334  the n-th connectivity check succeeds
CheckOk(n, first_ok) == n = first_ok

\* mutant: a successful check does not leave the loop
AfterCheck_KeepsPolling(ok) == "sleep"

\* engine.rs:296-308  after a check: return on success, else sleep
AfterCheck(ok) == IF ok THEN "done" ELSE "sleep"

BootInit ==
  /\ platform = "linux"
  /\ config = DefaultConfig
  /\ EngineAtRest
  /\ FwAtRest
  /\ RotAtRest
  /\ PeerAtRest
  /\ UsrAtRest
  /\ TrcAtRest
  /\ boot_first_ok \in 0..(max_attempts + 1)
  /\ boot_pc = "head"
  /\ boot_attempt = 0
  /\ boot_checks = 0
  /\ boot_waits = 0
  /\ boot_res = Ok
  /\ boot_elapsed = 0
  /\ boot_resp = "-"

\* engine.rs:319  .timeout(std::time::Duration::from_secs(5))
CheckTimeoutSecs == 5

\* engine.rs:308  sleep(Duration::from_secs(1))
SleepSecs == 1

\* mutant: the client is built without a timeout, a check may take longer
CheckDurations_NoTimeout == {0, CheckTimeoutSecs, CheckTimeoutSecs + 1}

\* engine.rs:316-325  the seconds one connectivity check may take: it
\* answers (or fails) at once, or it runs into the timeout of the client
CheckDurations == {0, CheckTimeoutSecs}

\* a JSON value (serde_json::Value): its type, its text when it is a
\* scalar, its fields when it is an object
Json(t, v, fields) == [t |-> t, v |-> v, fields |-> fields]

JsonNull == Json("null", "null", <<>>)

\* what a connectivity check can get back: the request fails, it runs into
\* the timeout, the body is not JSON, or the body is one of these values
\* (the object with IsTor true next to another field; IsTor false, missing,
\* the string "true"; the bare value true)
Bodies ==
  { Json("object", "-", [k \in {"IsTor", "IP"} |->
                           IF k = "IsTor" THEN Json("bool", "true", <<>>)
                           ELSE Json("string", "192.0.2.7", <<>>)]),
    Json("object", "-", [k \in {"IsTor"} |-> Json("bool", "false", <<>>)]),
    Json("object", "-", [k \in {"IP"} |-> Json("string", "192.0.2.7", <<>>)]),
    Json("object", "-", [k \in {"IsTor"} |-> Json("string", "true", <<>>)]),
    Json("bool", "true", <<>>) }

Responses ==
  {[kind |-> k, body |-> JsonNull] : k \in {"request_error", "timeout", "unparsable"}}
  \cup {[kind |-> "json", body |-> b] : b \in Bodies}

\* serde_json: value[key] is the field of an object, Null for a missing
\* field and for a value that is not an object
JsonIndex(value, key) ==
  IF value.t = "object" /\ key \in DOMAIN value.fields
  THEN value.fields[key]
  ELSE JsonNull

\* mutant: the string "true" is taken for the boolean
AsBool_Lenient(value) ==
  IF value.t \in {"bool", "string"} /\ value.v \in {"true", "false"}
  THEN [some |-> TRUE, val |-> value.v = "true"]
  ELSE [some |-> FALSE, val |-> FALSE]

\* serde_json: Value::as_bool is Some(b) for a boolean only
AsBool(value) ==
  IF value.t = "bool"
  THEN [some |-> TRUE, val |-> value.v = "true"]
  ELSE [some |-> FALSE, val |-> FALSE]

\* engine.rs:314-334  check_tor_connection: send().await? and
\* response.json().await? return the request error; then IsTor is looked at
CheckTorConnection(resp) ==
  IF resp.kind # "json" THEN Err("RequestError", resp.kind)
  ELSE IF AsBool(JsonIndex(resp.body, "IsTor")) = [some |-> TRUE, val |-> TRUE]
  THEN Ok
  ELSE Err("NotConnected", "check_tor_connection")

\* engine.rs:296-299  self.check_tor_connection().await.is_ok(); the host
\* answers so that check number boot_first_ok is the first to succeed, and
\* the check that takes the whole timeout is the one that ends in it
BootCheck ==
  /\ boot_pc = "head"
  /\ ~Exhausted(boot_attempt)
  /\ boot_checks' = boot_checks + 1
  /\ \E d \in CheckDurations, resp \in Responses :
       /\ boot_elapsed' = boot_elapsed + d
       /\ (resp.kind = "timeout") <=> (d = CheckTimeoutSecs)
       /\ (CheckTorConnection(resp) = Ok) <=> CheckOk(boot_checks + 1, boot_first_ok)
       /\ boot_resp' = resp
       /\ boot_pc' = AfterCheck(CheckTorConnection(resp) = Ok)
  /\ boot_res' = Ok
  /\ UNCHANGED << boot_first_ok, boot_attempt, boot_waits >>
  /\ UNCHANGED << platform, config, engine_vars, peer_vars, usr_vars, fw_vars, rot_vars, trc_vars >>

\* engine.rs:308  sleep(Duration::from_secs(1)).await, then the next attempt
BootSleep ==
  /\ boot_pc = "sleep"
  /\ boot_waits' = boot_waits + 1
  /\ boot_elapsed' = boot_elapsed + SleepSecs
  /\ boot_attempt' = boot_attempt + 1
  /\ boot_pc' = "head"
  /\ UNCHANGED << boot_first_ok, boot_checks, boot_res, boot_resp >>
  /\ UNCHANGED << platform, config, engine_vars, peer_vars, usr_vars, fw_vars, rot_vars, trc_vars >>

\* engine.rs:311  Err(NipeError::BootstrapTimeout)
BootTimeout ==
  /\ boot_pc = "head"
  /\ Exhausted(boot_attempt)
  /\ boot_pc' = "done"
  /\ boot_res' = Err("BootstrapTimeout", "wait_for_bootstrap")
  /\ UNCHANGED << boot_first_ok, boot_attempt, boot_checks, boot_waits,
                  boot_elapsed, boot_resp >>
  /\ UNCHANGED << platform, config, engine_vars, peer_vars, usr_vars, fw_vars, rot_vars, trc_vars >>

BootNext ==
  \/ BootCheck
  \/ BootSleep
  \/ BootTimeout

BootSpec == BootInit /\ [][BootNext]_vars

\* what start_internal takes from wait_for_bootstrap (engine.rs:227) is what
\* the loop returned
LoopAgrees ==
  WaitForBootstrap(boot_first_ok) =
    [res |-> boot_res, checks |-> boot_checks, waits |-> boot_waits]

\* C17: with a connectivity check that always fails the loop ends: it has
\* made exactly max_attempts checks, each followed by a one-second sleep
\* and so separated by one, and returned bootstrap-timeout, the error
\* start_internal takes from it; no more than max_attempts checks are ever
\* made.
C17_AlwaysFailingTimesOut ==
  /\ boot_checks <= max_attempts
  /\ boot_pc = "head" => boot_waits = boot_checks
  /\ (boot_pc = "done" /\ boot_first_ok = 0) =>
       /\ boot_checks = max_attempts
       /\ boot_waits \in {max_attempts - 1, max_attempts}
       /\ boot_res = Err("BootstrapTimeout", "wait_for_bootstrap")
       /\ LoopAgrees

C17_Witness ==
  /\ boot_pc = "done"
  /\ boot_first_ok = 0
  /\ boot_checks = max_attempts
  /\ boot_res = Err("BootstrapTimeout", "wait_for_bootstrap")

\* C18: when the connectivity check first succeeds on attempt k, with
\* 1 <= k <= max_attempts, the loop has returned bootstrap-complete after
\* exactly k checks and k - 1 sleeps, and that is what start_internal takes
\* from it.
C18_FirstSuccessEndsLoop ==
  (boot_pc = "done" /\ boot_first_ok \in 1..max_attempts) =>
     /\ boot_res = Ok
     /\ boot_checks = boot_first_ok
     /\ boot_waits = boot_first_ok - 1
     /\ LoopAgrees

C18_Witness ==
  /\ boot_pc = "done"
  /\ boot_first_ok = max_attempts
  /\ boot_res = Ok
  /\ boot_checks = max_attempts
  /\ boot_waits = max_attempts - 1

\* wait_for_bootstrap returned bootstrap-timeout
TimedOut ==
  boot_pc = "done" /\ boot_res = Err("BootstrapTimeout", "wait_for_bootstrap")

\* C30 as stated: the time spent before bootstrap-timeout is returned never
\* exceeds max_attempts times the per-check timeout.
C30_Original ==
  TimedOut => boot_elapsed <= max_attempts * CheckTimeoutSecs

\* C30, amended: the time spent in the loop, and so the time spent before
\* bootstrap-timeout is returned, never exceeds max_attempts times the
\* per-check timeout plus the one-second sleep; it is the checks made times
\* the timeout plus the sleeps made at most.
C30_WorstCaseDuration ==
  /\ boot_elapsed <= boot_checks * CheckTimeoutSecs + boot_waits * SleepSecs
  /\ boot_elapsed <= max_attempts * (CheckTimeoutSecs + SleepSecs)

\* every check ran into its timeout and bootstrap-timeout was returned
\* after max_attempts * (timeout + sleep) seconds
C30_Witness ==
  /\ TimedOut
  /\ boot_elapsed = max_attempts * (CheckTimeoutSecs + SleepSecs)
  /\ boot_elapsed > max_attempts * CheckTimeoutSecs

\* the response is a JSON object whose IsTor field is the boolean true
IsTorTrue(resp) ==
  /\ resp.kind = "json"
  /\ resp.body.t = "object"
  /\ "IsTor" \in DOMAIN resp.body.fields
  /\ resp.body.fields["IsTor"].t = "bool"
  /\ resp.body.fields["IsTor"].v = "true"

\* C31: an attempt counts as success exactly when the response is a JSON
\* object whose IsTor field is the boolean true: the loop returns
\* bootstrap-complete only on such a response, and on any other (a request
\* error, a timeout, an unparsable body, a missing or non-boolean field, the
\* value false) it goes on to the sleep; bootstrap-timeout is returned only
\* with all max_attempts checks made.
C31_SuccessIffIsTorTrue ==
  /\ (boot_pc = "done" /\ boot_res = Ok) => IsTorTrue(boot_resp)
  /\ boot_pc = "sleep" => ~IsTorTrue(boot_resp)
  /\ (boot_pc \in {"sleep", "done"} /\ ~IsTorTrue(boot_resp)) =>
       (boot_pc = "sleep" \/ TimedOut)
  /\ TimedOut => boot_checks = max_attempts

\* the loop went on after an object whose IsTor is the string "true"
C31_Witness ==
  /\ boot_pc = "sleep"
  /\ boot_resp.kind = "json"
  /\ boot_resp.body.t = "object"
  /\ "IsTor" \in DOMAIN boot_resp.body.fields
  /\ boot_resp.body.fields["IsTor"].t = "string"

(***************************************************************************)
(* rotate() (engine.rs:272-289) taken on its own, and the peer on the      *)
(* control port.                                                           *)
(***************************************************************************)
\* engine.rs:282  b"AUTHENTICATE \"\"\r\n"
AuthLine ==
  <<"A","U","T","H","E","N","T","I","C","A","T","E"," ","\"","\"","\r","\n">>

\* engine.rs:285  b"SIGNAL NEWNYM\r\n"
SignalLine == <<"S","I","G","N","A","L"," ","N","E","W","N","Y","M","\r","\n">>

\* mutant: the signal is written before the credential
RotateWrites_SignalFirst == <<SignalLine, AuthLine>>

\* engine.rs:282-285  what rotate() writes, in order
RotateWrites == <<AuthLine, SignalLine>>

\* engine.rs:276  format!("127.0.0.1:{}", self.config.tor.control_port)
ControlAddr(port) == [ip |-> "127.0.0.1", port |-> port]

\* the control ports tried: the default (config.rs:45) and two others
ControlPorts == {9051, 9151, 9052}

\* the peers tried: one that accepts the empty credential, one that wants a
\* configured secret and rejects it, one that rejects it and stops
\* listening, and one that never answers
Peers == {"open", "secret", "closing", "silent"}

\* how many lines the peer answers
Answers(peer) ==
  CASE peer = "open" -> 2
    [] peer = "secret" -> 2
    [] peer = "closing" -> 1
    [] peer = "silent" -> 0

\* the reply of the peer to the n-th line it received
Reply(peer, n) ==
  IF peer = "open" THEN "250 OK"
  ELSE IF n = 1 THEN "515 Authentication failed"
  ELSE "514 Authentication required"

\* write_all that fails has written some part of the buffer: none of it,
\* or all but the line end
FailedWrite(line) == {<<>>, SubSeq(line, 1, Len(line) - 2)}

RotInit ==
  /\ platform = "linux"
  /\ config = DefaultConfig
  /\ EngineAtRest
  /\ FwAtRest
  /\ BootAtRest
  /\ TrcAtRest
  /\ PeerAtRest
  /\ UsrAtRest
  /\ rot_pc = "connect"
  /\ rot_port \in ControlPorts
  /\ rot_peer \in Peers
  /\ rot_conns = <<>>
  /\ rot_wire = <<>>
  /\ rot_reads = 0
  /\ rot_inbox = <<>>
  /\ rot_res = Ok

\* engine.rs:276-279  TcpStream::connect(&addr), an error mapped to Other
RotConnect ==
  /\ rot_pc = "connect"
  /\ \E connected \in BOOLEAN :
       IF connected
       THEN /\ rot_conns' = Append(rot_conns, ControlAddr(rot_port))
            /\ rot_pc' = "write"
            /\ rot_res' = rot_res
       ELSE /\ rot_conns' = rot_conns
            /\ rot_pc' = "returned"
            /\ rot_res' = Err("Other", "connect")
  /\ UNCHANGED << rot_port, rot_peer, rot_wire, rot_reads, rot_inbox >>
  /\ UNCHANGED << platform, config, engine_vars, peer_vars, usr_vars, fw_vars, boot_vars, trc_vars >>

\* mutant: the result of a write is dropped (`let _ =`), the next line is
\* written whatever became of the one before
RotWrite_ResultDropped ==
  /\ rot_pc = "write"
  /\ LET n == Len(rot_wire) + 1 IN
       /\ \E written \in BOOLEAN :
            IF written
            THEN rot_wire' = Append(rot_wire, RotateWrites[n])
            ELSE \E part \in FailedWrite(RotateWrites[n]) :
                   rot_wire' = Append(rot_wire, part)
       /\ rot_pc' = IF n = Len(RotateWrites) THEN "returned" ELSE "write"
       /\ rot_res' = Ok
  /\ UNCHANGED << rot_port, rot_peer, rot_conns, rot_reads, rot_inbox >>
  /\ UNCHANGED << platform, config, engine_vars, peer_vars, usr_vars, fw_vars, boot_vars, trc_vars >>

\* engine.rs:282-288  stream.write_all(line).await? for the next line; after
\* the last one rotate() returns Ok without reading
RotWrite ==
  /\ rot_pc = "write"
  /\ LET n == Len(rot_wire) + 1 IN
       \E written \in BOOLEAN :
         IF written
         THEN /\ rot_wire' = Append(rot_wire, RotateWrites[n])
              /\ rot_pc' = IF n = Len(RotateWrites) THEN "returned" ELSE "write"
              /\ rot_res' = Ok
         ELSE /\ \E part \in FailedWrite(RotateWrites[n]) :
                   rot_wire' = Append(rot_wire, part)
              /\ rot_pc' = "returned"
              /\ rot_res' = Err("IoError", "write_all")
  /\ UNCHANGED << rot_port, rot_peer, rot_conns, rot_reads, rot_inbox >>
  /\ UNCHANGED << platform, config, engine_vars, peer_vars, usr_vars, fw_vars, boot_vars, trc_vars >>

\* the peer answers a line it has received in full; the answer waits on the
\* connection
PeerReplies ==
  /\ Len(rot_inbox) < Answers(rot_peer)
  /\ Len(rot_inbox) < Len(rot_wire)
  /\ rot_wire[Len(rot_inbox) + 1] \in {AuthLine, SignalLine}
  /\ rot_inbox' = Append(rot_inbox, Reply(rot_peer, Len(rot_inbox) + 1))
  /\ UNCHANGED << rot_pc, rot_port, rot_peer, rot_conns, rot_wire, rot_reads,
                  rot_res >>
  /\ UNCHANGED << platform, config, engine_vars, peer_vars, usr_vars, fw_vars, boot_vars, trc_vars >>

RotNext ==
  \/ RotConnect
  \/ RotWrite
  \/ PeerReplies

RotSpec == RotInit /\ [][RotNext]_vars

\* the byte string is one line ended by CR LF
CrLfTerminated(line) ==
  /\ Len(line) >= 2
  /\ line[Len(line) - 1] = "\r"
  /\ line[Len(line)] = "\n"
  /\ \A i \in 1..(Len(line) - 2) : line[i] \notin {"\r", "\n"}

\* both writes of rotate() were made in full
BothWritten == Len(rot_wire) = 2 /\ \A i \in 1..2 : CrLfTerminated(rot_wire[i])

\* C19: rotate() opens at most one connection, to 127.0.0.1 at the control
\* port, and reads nothing; once both writes are complete it returns
\* success, having written AUTHENTICATE "" and then SIGNAL NEWNYM, each
\* ended by CR LF and nothing else, whatever the peer replies; it returns
\* success in no other case.
C19_RotateWritesTwoLines ==
  /\ rot_reads = 0
  /\ Len(rot_conns) <= 1
  /\ \A i \in 1..Len(rot_conns) : rot_conns[i] = [ip |-> "127.0.0.1", port |-> rot_port]
  /\ rot_pc = "returned" =>
       /\ BothWritten => rot_res = Ok
       /\ rot_res = Ok =>
            /\ Len(rot_conns) = 1
            /\ rot_wire = << <<"A","U","T","H","E","N","T","I","C","A","T","E",
                               " ","\"","\"","\r","\n">>,
                             <<"S","I","G","N","A","L"," ","N","E","W","N","Y","M",
                               "\r","\n">> >>
            /\ BothWritten

C19_Witness ==
  /\ rot_pc = "returned"
  /\ rot_res = Ok
  /\ rot_peer = "secret"
  /\ rot_inbox = <<"515 Authentication failed", "514 Authentication required">>
  /\ Len(rot_wire) = 2

\* C32: rotate() that cannot open the connection returns an error and has
\* written nothing; when the write of the authentication request fails it
\* returns that error and has not attempted the signal write; it returns
\* success only with both writes made in full.
C32_RotateErrors ==
  rot_pc = "returned" =>
    /\ rot_conns = <<>> =>
         /\ rot_res = Err("Other", "connect")
         /\ rot_wire = <<>>
    /\ (Len(rot_wire) >= 1 /\ rot_wire[1] # AuthLine) =>
         /\ rot_res = Err("IoError", "write_all")
         /\ Len(rot_wire) = 1
    /\ rot_res = Ok =>
         /\ Len(rot_wire) = 2
         /\ rot_wire[1] = AuthLine
         /\ rot_wire[2] = SignalLine

\* the write of the authentication request failed part-way and rotate()
\* returned the error
C32_Witness ==
  /\ rot_pc = "returned"
  /\ Len(rot_conns) = 1
  /\ Len(rot_wire) = 1
  /\ rot_wire[1] # AuthLine
  /\ rot_wire[1] # <<>>
  /\ rot_res = Err("IoError", "write_all")

(***************************************************************************)
(* generate_torrc (engine.rs:336-424) taken on its own.  The generated     *)
(* text is the sequence of its pieces, in order.                           *)
(***************************************************************************)
\* engine.rs:347-351, 354-357  where the transport plugin is looked for
ObfsPaths(pf) ==
  IF pf = "windows"
  THEN << "C:\\Program Files\\Tor\\obfs4proxy.exe",
          "C:\\Program Files (x86)\\Tor\\obfs4proxy.exe" >>
  ELSE << "/usr/bin/obfs4proxy", "/usr/local/bin/obfs4proxy",
          "/opt/homebrew/bin/obfs4proxy" >>

\* engine.rs:367-371  the plugin named when none of the paths exists
ObfsFallback(pf) == IF pf = "windows" THEN "obfs4proxy.exe" ELSE "/usr/bin/obfs4proxy"

\* engine.rs:359  paths.iter().find(|p| Path::new(p).exists())
RECURSIVE FindExisting(_, _, _)
FindExisting(paths, files, i) ==
  IF i > Len(paths) THEN "none"
  ELSE IF paths[i] \in files THEN paths[i]
  ELSE FindExisting(paths, files, i + 1)

\* engine.rs:342-374  the plugin the ClientTransportPlugin line names
TransportPlugin(pf, cfg, files) ==
  IF cfg.client_transport_plugin # "none" THEN cfg.client_transport_plugin
  ELSE IF FindExisting(ObfsPaths(pf), files, 1) # "none"
       THEN FindExisting(ObfsPaths(pf), files, 1)
       ELSE ObfsFallback(pf)

\* engine.rs:377-379  one "Bridge <b>\n" line per configured bridge
RECURSIVE BridgeLines(_, _)
BridgeLines(bridges, i) ==
  IF i > Len(bridges) THEN <<>>
  ELSE <<"Bridge ", bridges[i], "\n">> \o BridgeLines(bridges, i + 1)

\* mutant: the Bridge lines are written whether or not bridges are in use
BridgeConfig_BridgesAlways(pf, cfg, files) ==
  IF cfg.use_bridges
  THEN <<"\n# Bridge Configuration\nUseBridges 1\n">>
       \o <<"ClientTransportPlugin obfs4 exec ", TransportPlugin(pf, cfg, files), "\n">>
       \o BridgeLines(cfg.bridges, 1)
  ELSE BridgeLines(cfg.bridges, 1)

\* engine.rs:338-383  bridge_config
BridgeConfig(pf, cfg, files) ==
  IF cfg.use_bridges
  THEN <<"\n# Bridge Configuration\nUseBridges 1\n">>
       \o <<"ClientTransportPlugin obfs4 exec ", TransportPlugin(pf, cfg, files), "\n">>
       \o BridgeLines(cfg.bridges, 1)
  ELSE <<>>

\* Vec<String>::join(",")
RECURSIVE JoinComma(_, _)
JoinComma(items, i) ==
  IF i > Len(items) THEN <<>>
  ELSE (IF i > 1 THEN <<",">> ELSE <<>>) \o <<items[i]>> \o JoinComma(items, i + 1)

\* mutant: the strict-mode directive is written for a listed set of exit
\* nodes as well
ExitConfig_AlwaysStrict(cfg) ==
  IF cfg.exit_nodes = <<>>
  THEN IF cfg.country # "none"
       THEN <<"ExitNodes {", cfg.country, "}\nStrictNodes 1">>
       ELSE <<>>
  ELSE <<"ExitNodes {">> \o JoinComma(cfg.exit_nodes, 1) \o <<"}\nStrictNodes 1">>

\* engine.rs:403-411  the exit-node preference
ExitConfig(cfg) ==
  IF cfg.exit_nodes = <<>>
  THEN IF cfg.country # "none"
       THEN <<"ExitNodes {", cfg.country, "}\nStrictNodes 1">>
       ELSE <<>>
  ELSE <<"ExitNodes {">> \o JoinComma(cfg.exit_nodes, 1) \o <<"}">>

\* Display of an unsigned integer: its decimal digits
RECURSIVE Decimal(_)
Decimal(n) ==
  LET digit == <<"0", "1", "2", "3", "4", "5", "6", "7", "8", "9">> IN
    IF n < 10 THEN <<digit[n + 1]>>
    ELSE Decimal(n \div 10) \o <<digit[(n % 10) + 1]>>

\* engine.rs:385-412  torrc_content
GenerateTorrc(pf, cfg, files) ==
  <<"\n# Nipe Tor Configuration\nSocksPort ">> \o Decimal(cfg.socks_port)
  \o <<"\nControlPort ">> \o Decimal(cfg.control_port)
  \o <<"\nDataDirectory ">> \o cfg.data_directory
  \o <<"\n\n# Basic settings\nLog notice stdout\nDisableNetwork 0\n">>
  \o BridgeConfig(pf, cfg, files)
  \o <<"\n# Exit nodes preference (if specified)\n">>
  \o ExitConfig(cfg)
  \o <<"\n">>

\* the settings of config.tor tried (config.rs:12-25, defaults of 43-52);
\* country is the setting engine.rs:404 reads
TorConfigs ==
  [socks_port : {DefaultSocksPort, 9150}, control_port : {DefaultControlPort},
   dns_port : {DefaultDnsPort, 5353},
   data_directory : {DefaultDataDirectory},
   use_bridges : BOOLEAN,
   client_transport_plugin : {"none", "/opt/tor/obfs4proxy"},
   bridges : {<<>>, <<"obfs4 192.0.2.1:443", "obfs4 192.0.2.2:443">>},
   exit_nodes : {<<>>, <<"us">>, <<"us", "de">>},
   country : {"none", "de"}]

TrcInit ==
  /\ platform \in Platforms
  /\ config = DefaultConfig
  /\ EngineAtRest
  /\ FwAtRest
  /\ BootAtRest
  /\ RotAtRest
  /\ PeerAtRest
  /\ UsrAtRest
  /\ trc_cfg \in TorConfigs
  /\ trc_files \in SUBSET {ObfsPaths(platform)[i] : i \in 1..Len(ObfsPaths(platform))}
  /\ trc_texts = <<>>

\* engine.rs:336-412  one generation from the configuration and the host
TrcGenerate ==
  /\ Len(trc_texts) < MaxGenerations
  /\ trc_texts' = Append(trc_texts, GenerateTorrc(platform, trc_cfg, trc_files))
  /\ UNCHANGED << trc_cfg, trc_files >>
  /\ UNCHANGED << platform, config, engine_vars, peer_vars, usr_vars, fw_vars, boot_vars, rot_vars >>

\* between two generations a plugin binary is installed on the host or
\* removed from it
TrcHostChanges ==
  /\ Len(trc_texts) = 1
  /\ \E i \in 1..Len(ObfsPaths(platform)) :
       LET f == ObfsPaths(platform)[i] IN
         trc_files' = IF f \in trc_files THEN trc_files \ {f} ELSE trc_files \cup {f}
  /\ UNCHANGED << trc_cfg, trc_texts >>
  /\ UNCHANGED << platform, config, engine_vars, peer_vars, usr_vars, fw_vars, boot_vars, rot_vars >>

TrcNext ==
  \/ TrcGenerate
  \/ TrcHostChanges

TrcSpec == TrcInit /\ [][TrcNext]_vars

\* C20: the texts generated from one configuration are identical, with
\* bridges in use and no transport plugin configured too, whatever happens
\* on the host between the generations.
C20_GenerationDeterministic ==
  \A i, j \in 1..Len(trc_texts) : trc_texts[i] = trc_texts[j]

\* the places of a text where an exit-node restriction opens
ExitNodesAt(text) == {i \in 1..Len(text) : text[i] = "ExitNodes {"}

\* the places of a text that carry the strict-mode directive
StrictNodesAt(text) == {i \in 1..Len(text) : text[i] = "}\nStrictNodes 1"}

\* the codes the restriction opening at place i names, in order: the pieces
\* up to the closing brace, without the separating commas
NamedCodes(text, i) ==
  LET closing == {j \in (i + 1)..Len(text) : text[j] \in {"}", "}\nStrictNodes 1"}}
      j == CHOOSE j \in closing : \A k \in closing : j <= k
  IN SelectSeq(SubSeq(text, i + 1, j - 1), LAMBDA piece : piece # ",")

\* C21: generated from a non-empty exit_nodes list, the text holds exactly
\* one exit-node restriction, naming every listed code in list order, and no
\* strict-mode directive; generated from an empty list with no country set,
\* it holds neither directive.
C21_ExitNodesListed ==
  \A k \in 1..Len(trc_texts) :
    LET text == trc_texts[k] IN
      /\ trc_cfg.exit_nodes # <<>> =>
           /\ Cardinality(ExitNodesAt(text)) = 1
           /\ \A i \in ExitNodesAt(text) : NamedCodes(text, i) = trc_cfg.exit_nodes
           /\ StrictNodesAt(text) = {}
      /\ (trc_cfg.exit_nodes = <<>> /\ trc_cfg.country = "none") =>
           /\ ExitNodesAt(text) = {}
           /\ StrictNodesAt(text) = {}

\* a text was generated from a list of two codes, with a country set as well
C21_Witness ==
  /\ Len(trc_texts) >= 1
  /\ trc_cfg.exit_nodes = <<"us", "de">>
  /\ trc_cfg.country = "de"
  /\ NamedCodes(trc_texts[1], CHOOSE i \in ExitNodesAt(trc_texts[1]) : TRUE) = <<"us", "de">>

\* the places of a text that carry the bridge-enable directive
UseBridgesAt(text) ==
  {i \in 1..Len(text) : text[i] = "\n# Bridge Configuration\nUseBridges 1\n"}

\* the places of a text where a transport-plugin line opens
PluginAt(text) == {i \in 1..Len(text) : text[i] = "ClientTransportPlugin obfs4 exec "}

\* the entries the Bridge lines of a text name, in the order of the lines
RECURSIVE BridgesNamed(_, _)
BridgesNamed(text, i) ==
  IF i > Len(text) THEN <<>>
  ELSE IF text[i] = "Bridge " THEN <<text[i + 1]>> \o BridgesNamed(text, i + 2)
  ELSE BridgesNamed(text, i + 1)

\* C34: the generated text holds bridge directives exactly when use_bridges
\* is set: then the bridge-enable directive, exactly one transport-plugin
\* line and one Bridge line per entry of bridges, in list order; when it is
\* not set, no bridge-enable, transport-plugin or Bridge line at all, even
\* with a non-empty bridges list.
C34_BridgeDirectives ==
  \A k \in 1..Len(trc_texts) :
    LET text == trc_texts[k] IN
      IF trc_cfg.use_bridges
      THEN /\ Cardinality(UseBridgesAt(text)) = 1
           /\ Cardinality(PluginAt(text)) = 1
           /\ BridgesNamed(text, 1) = trc_cfg.bridges
      ELSE /\ UseBridgesAt(text) = {}
           /\ PluginAt(text) = {}
           /\ BridgesNamed(text, 1) = <<>>

\* a text was generated with bridges in use from a list of two entries and
\* no configured plugin, and names both entries
C34_Witness ==
  /\ Len(trc_texts) >= 1
  /\ trc_cfg.use_bridges
  /\ Len(trc_cfg.bridges) = 2
  /\ trc_cfg.client_transport_plugin = "none"
  /\ Len(BridgesNamed(trc_texts[1], 1)) = 2
  /\ PluginAt(trc_texts[1]) # {}

\* the REDIRECT rules the kill switch installs (linux.rs:98-137)
Redirects == {NatRules[i] : i \in {j \in 1..Len(NatRules) : NatRules[j].action = "REDIRECT"}}

\* the pieces of a runtime configuration that open a directive declaring a
\* DNS listener, and a transparent or SOCKS listener
DnsListenerPieces == {"DNSPort ", "\nDNSPort "}
ProxyListenerPieces ==
  {"TransPort ", "\nTransPort ", "SocksPort ", "\nSocksPort ",
   "\n# Nipe Tor Configuration\nSocksPort "}

\* the text declares a listener on port with one of the opening pieces: the
\* piece is followed by the decimal digits of the port and the digits end
\* there
Declares(text, pieces, port) ==
  \E i \in 1..Len(text) :
    /\ text[i] \in pieces
    /\ i + Len(Decimal(port)) < Len(text)
    /\ SubSeq(text, i + 1, i + Len(Decimal(port))) = Decimal(port)
    /\ text[i + Len(Decimal(port)) + 1] \notin {"0", "1", "2", "3", "4", "5", "6", "7", "8", "9"}

\* C37: every port the kill-switch rules redirect to is a port on which the
\* generated configuration declares a listener of the matching kind, for
\* every configuration: the target of the DNS redirects is dns_port and has
\* a DNS listener directive, and the target of the TCP redirect has a
\* transparent or SOCKS listener directive.
C37_RedirectTargetsListen ==
  \A k \in 1..Len(trc_texts) :
    \A r \in Redirects :
      IF r.dport = 53
      THEN /\ r.to = trc_cfg.dns_port
           /\ Declares(trc_texts[k], DnsListenerPieces, r.to)
      ELSE Declares(trc_texts[k], ProxyListenerPieces, r.to)

\* the generated text declares its SOCKS listener on socks_port
SocksListenerDeclared ==
  \A k \in 1..Len(trc_texts) :
    Declares(trc_texts[k], ProxyListenerPieces, trc_cfg.socks_port)

(***************************************************************************)
(* start() in one CLI process and stop() in another (main.rs:146-148 and   *)
(* 173-175), interleaved between their steps.  The second process has its  *)
(* own engine, which holds no child handle; both act on the one host       *)
(* firewall, proxy setting and process table.                              *)
(***************************************************************************)
\* the steps of start() from its enable_kill_switch to its return
StartFirewallSection == {"enable_kill_switch", "enable_socks_proxy", "detach"}

\* mutant: the provider is built under a host-wide lock that start() holds
\* over its firewall section
PeerFirewallNew_Exclusive(pf, iface_found) ==
  IF pc \in StartFirewallSection
  THEN Err("FirewallError", "locked")
  ELSE FirewallNew(pf, iface_found)

\* engine.rs:248 in the second process: Firewall::new() reads nothing that
\* another process wrote
PeerFirewallNew(pf, iface_found) == FirewallNew(pf, iface_found)

\* the platforms whose Firewall::new() cannot fail (linux.rs:11-15,
\* windows.rs:29-35)
ConcInit ==
  /\ platform \in {"linux", "windows"}
  /\ config = DefaultConfig
  /\ EngineAtRest
  /\ FwAtRest
  /\ BootAtRest
  /\ RotAtRest
  /\ TrcAtRest
  /\ UsrAtRest
  /\ peer_pc = "stop_firewall_new"
  /\ peer_undid = FALSE

\* a `?` of the second process's stop(): Ok goes on, an error ends the
\* process (main.rs:190-193)
PeerStep(r, next) == peer_pc' = IF r = Ok THEN next ELSE "exited"

\* engine.rs:248  let firewall = Firewall::new()?
PeerStopFirewallNew ==
  /\ peer_pc = "stop_firewall_new"
  /\ \E iface_found \in Flags(platform, {"macos"}) :
       PeerStep(PeerFirewallNew(platform, iface_found), "stop_disable_kill_switch")
  /\ UNCHANGED << platform, config, engine_vars, peer_undid, fw_vars, boot_vars,
                  rot_vars, trc_vars, usr_vars >>

\* engine.rs:249  firewall.disable_kill_switch()?
PeerStopDisableKillSwitch ==
  /\ peer_pc = "stop_disable_kill_switch"
  /\ \E o1 \in CmdOutcome :
       LET r == DisableKillSwitch(platform, o1, kill_switch, proxy) IN
         /\ kill_switch' = r.ks
         /\ proxy' = r.proxy
         /\ peer_undid' = (peer_undid \/ (/\ kill_switch
                                          /\ ~r.ks
                                          /\ pc \in {"enable_socks_proxy", "detach"}))
         /\ PeerStep(r.res, "stop_disable_socks_proxy")
  /\ UNCHANGED << platform, config, pc, stop_ctx, tor_process, tor_user, procs, e,
                  last, ks_pre, rollback_runs, attempted, install_invoked,
                  pkill_ran, spawned, start_steps, fw_vars, boot_vars, rot_vars, trc_vars, usr_vars >>

\* engine.rs:250  firewall.disable_socks_proxy()?
PeerStopDisableSocksProxy ==
  /\ peer_pc = "stop_disable_socks_proxy"
  /\ \E o1 \in Outcomes(platform, {"macos", "windows"}),
        o2 \in Outcomes(platform, {"macos"}) :
       LET r == DisableSocksProxy(platform, o1, o2, kill_switch, proxy) IN
         /\ kill_switch' = r.ks
         /\ proxy' = r.proxy
         /\ PeerStep(r.res, "stop_process")
  /\ UNCHANGED << platform, config, pc, stop_ctx, tor_process, tor_user, procs, e,
                  last, ks_pre, rollback_runs, attempted, install_invoked,
                  pkill_ran, spawned, start_steps, peer_undid, fw_vars, boot_vars, rot_vars,
                  trc_vars, usr_vars >>

\* engine.rs:260-266  the second engine holds no handle: the pkill fallback,
\* whose outcome is dropped, and Ok
PeerStopProcess ==
  /\ peer_pc = "stop_process"
  /\ \E pkill_runs \in BOOLEAN :
       procs' = IF pkill_runs THEN Pkill(procs, config) ELSE procs
  /\ peer_pc' = "exited"
  /\ UNCHANGED << platform, config, pc, stop_ctx, tor_process, tor_user,
                  kill_switch, proxy, e, last, ks_pre, rollback_runs, attempted,
                  install_invoked, pkill_ran, spawned, start_steps, peer_undid, fw_vars,
                  boot_vars, rot_vars, trc_vars, usr_vars >>

ConcNext ==
  \/ Next
  \/ PeerStopFirewallNew
  \/ PeerStopDisableKillSwitch
  \/ PeerStopDisableSocksProxy
  \/ PeerStopProcess

ConcSpec == ConcInit /\ [][ConcNext]_vars

\* C22: nothing keeps the two processes apart.  The second process's
\* Firewall::new() is never refused, wherever start() is, so its stop() goes
\* on to its firewall commands while start() is between its own; a state in
\* which start() has returned success and the kill switch is not installed,
\* because the second process removed it in between, is reachable
\* (C22_Witness).
C22_NoMutualExclusion ==
  [][peer_pc = "stop_firewall_new" =>
       peer_pc' \in {"stop_firewall_new", "stop_disable_kill_switch"}]_vars

\* start() returned success after the second process removed the kill
\* switch that this start() had installed
C22_Witness ==
  /\ StartSucceeded
  /\ install_invoked
  /\ peer_undid
  /\ ~kill_switch

(***************************************************************************)
(* find_tor_user taken on its own  (engine.rs:27-63)                       *)
(***************************************************************************)
\* what `id -u <user>` can do (engine.rs:32-36, 38-40): it cannot be run,
\* it exits non-zero (no such account), it prints something that is no u32,
\* it prints the uid
UidLookups == {"spawn_err", "nonzero", "garbage", "number"}

\* what `id -g <user>` can do (engine.rs:42-51): its exit status is not
\* looked at, so only whether it ran and whether its output parses count
GidLookups == {"spawn_err", "garbage", "number"}

\* the hosts tried: for each candidate of users, what the two lookups do
UsrHosts == [1..Len(users) -> [uid : UidLookups, gid : GidLookups]]

UsrInit ==
  /\ platform \in {"linux"}
  /\ config = DefaultConfig
  /\ EngineAtRest
  /\ FwAtRest
  /\ BootAtRest
  /\ RotAtRest
  /\ TrcAtRest
  /\ PeerAtRest
  /\ usr_host \in UsrHosts
  /\ usr_pc = "id_u"
  /\ usr_i = 1
  /\ usr_res = "none"

\* engine.rs:31  the loop moves to the next candidate, or ends
UsrNextCandidate ==
  /\ usr_i' = usr_i + 1
  /\ usr_pc' = IF usr_i < Len(users) THEN "id_u" ELSE "not_found"

\* engine.rs:32-40  `id -u`: a failure to run it returns None (.ok()?); a
\* non-zero exit or an unparsable uid moves on to the next candidate
UsrIdU ==
  /\ usr_pc = "id_u"
  /\ CASE usr_host[usr_i].uid = "spawn_err" -> usr_pc' = "returned" /\ usr_i' = usr_i
       [] usr_host[usr_i].uid = "number" -> usr_pc' = "id_g" /\ usr_i' = usr_i
       [] OTHER -> UsrNextCandidate
  /\ UNCHANGED << usr_host, usr_res >>
  /\ UNCHANGED << platform, config, engine_vars, peer_vars, fw_vars, boot_vars, rot_vars,
                  trc_vars >>

\* engine.rs:42-57  `id -g`: a failure to run it returns None (.ok()?); a
\* gid that parses returns the account's ids; otherwise the next candidate
UsrIdG ==
  /\ usr_pc = "id_g"
  /\ CASE usr_host[usr_i].gid = "spawn_err" ->
            usr_pc' = "returned" /\ usr_i' = usr_i /\ usr_res' = usr_res
       [] usr_host[usr_i].gid = "number" ->
            usr_pc' = "returned" /\ usr_i' = usr_i /\ usr_res' = users[usr_i]
       [] OTHER -> UsrNextCandidate /\ usr_res' = usr_res
  /\ UNCHANGED usr_host
  /\ UNCHANGED << platform, config, engine_vars, peer_vars, fw_vars, boot_vars, rot_vars,
                  trc_vars >>

\* engine.rs:61-62  no candidate was returned: None
UsrNotFound ==
  /\ usr_pc = "not_found"
  /\ usr_pc' = "returned"
  /\ usr_res' = "none"
  /\ UNCHANGED << usr_host, usr_i >>
  /\ UNCHANGED << platform, config, engine_vars, peer_vars, fw_vars, boot_vars, rot_vars,
                  trc_vars >>

UsrNext ==
  \/ UsrIdU
  \/ UsrIdG
  \/ UsrNotFound

UsrSpec == UsrInit /\ [][UsrNext]_vars

\* a candidate resolves when both of its lookups give a number
Resolves(l) == l.uid = "number" /\ l.gid = "number"

\* the first candidate of users from position i on that resolves on host h
RECURSIVE FirstResolvingFrom(_, _)
FirstResolvingFrom(i, h) ==
  IF i > Len(users) THEN "none"
  ELSE IF Resolves(h[i]) THEN users[i]
  ELSE FirstResolvingFrom(i + 1, h)

\* the outcome of probing one candidate, as find_tor_user sees it
ProbeOf(l) ==
  CASE l.uid = "spawn_err" -> "cmd_fail"
    [] l.uid = "number" /\ l.gid = "spawn_err" -> "cmd_fail"
    [] Resolves(l) -> "found"
    [] OTHER -> "unknown"

\* the loop of find_tor_user returns what FindTorUser gives for the probes
\* of the host
UsrLoopIsFindTorUser ==
  usr_pc = "returned" =>
    usr_res = FindTorUser([i \in 1..Len(users) |-> ProbeOf(usr_host[i])])

\* C33: find_tor_user returns the first candidate, in the order debian-tor,
\* tor, nobody, whose uid and gid lookups both succeed, and None exactly
\* when no candidate resolves: a candidate that does not resolve never
\* keeps the later ones from being probed.
C33_FirstResolvingCandidate ==
  usr_pc = "returned" => usr_res = FirstResolvingFrom(1, usr_host)

=============================================================================
